---------------------------- MODULE Spec2Model ----------------------------
(***************************************************************************)
(* A model of src/main.py, the YouTube transcript downloader: the pure     *)
(* helpers (extract_video_id, extract_channel_id, get_channel_videos, the  *)
(* SRT branch of save_transcript) as operators, and the menu loop with its *)
(* three workflows as a state machine.                                     *)
(*                                                                         *)
(* Text is a sequence of code points, so that the regular expressions,     *)
(* str.strip, int() and the f-string formatting are computed on characters *)
(* as the code computes them.                                              *)
(***************************************************************************)
EXTENDS Integers, Sequences, FiniteSets, TLC

VARIABLES
    pc,             \* position of the program in main() and its workflows
    choice,         \* main: the validated menu choice (0 before the first)
    channel_url,    \* download_channel_transcripts: its argument
    video_url,      \* download_single_video_transcript: its argument
    channel_id,     \* download_channel_transcripts: the resolved identifier
    output_format,  \* the workflow's output format ("none" before the prompt)
    video_ids,      \* download_channel_transcripts: the enumerated videos
    video_urls,     \* download_multiple_video_transcripts: the non-blank lines
    idx,            \* the batch loops' enumerate() index (1-based)
    successful,     \* run summary counter
    failed,         \* run summary counter
    no_captions,    \* run summary counter (channel workflow only)
    dirs,           \* the directories the current workflow has created
    files,          \* the files the current workflow has written:
                    \* path -> "complete" | "partial"
    events,         \* what the current workflow has done so far, in order
    console,        \* the last message printed
    exit_status,    \* -1 while running, else the status the process exited with
    stdin_line,     \* the last line input() read
    file_path,      \* download_multiple_video_transcripts: its argument
    file_lines,     \* download_multiple_video_transcripts: the lines of the file
    arg,            \* harness of the pure functions: the call's input
    ret             \* harness of the pure functions: the call's result

vars == <<pc, choice, channel_url, video_url, channel_id, output_format,
          video_ids, video_urls, idx, successful, failed, no_captions, dirs, files,
          events, console, exit_status, stdin_line, file_path, file_lines, arg,
          ret>>

mainVars == <<pc, choice, channel_url, video_url, channel_id, output_format,
              video_ids, video_urls, idx, successful, failed, no_captions, dirs, files,
              events, console, exit_status, stdin_line, file_path,
              file_lines>>

-----------------------------------------------------------------------------
(* Bounds of the model.                                                    *)

\* fragments concatenated into a video URL given to extract_video_id
MaxVideoFrags == 3

\* fragments concatenated into a channel URL given to extract_channel_id
MaxChannelFrags == 3

\* page calls a channel's enumeration may need
MaxPages == 3

\* segments of a transcript given to save_transcript
MaxSegments == 2

-----------------------------------------------------------------------------
(* Text.                                                                   *)

\* A text is a sequence of code points, as a Python str is. str("...") is
\* the text of a literal of printable ASCII characters.

\* ord(c) of a character from U+0020 to U+005F or from U+0061 to U+007E
ord(c) ==
    LET AsciiLow == " !\"#$%&'()*+,-./0123456789:;<=>?@ABCDEFGHIJKLMNOPQRSTUVWXYZ[\\]^_"
        AsciiHigh == "abcdefghijklmnopqrstuvwxyz{|}~"
    IN  IF \E i \in 1..Len(AsciiLow) : SubSeq(AsciiLow, i, i) = c
        THEN 31 + (CHOOSE i \in 1..Len(AsciiLow) : SubSeq(AsciiLow, i, i) = c)
        ELSE 96 + (CHOOSE i \in 1..Len(AsciiHigh) : SubSeq(AsciiHigh, i, i) = c)

str(literal) == [i \in 1..Len(literal) |-> ord(SubSeq(literal, i, i))]

\* a-z, A-Z, 0-9, "_" and "-"
IdChars == (97..122) \cup (65..90) \cup (48..57) \cup {95, 45}

\* the code points from U+0080 on that \w matches in a str pattern (the
\* alphanumeric characters of the Unicode database of the interpreter), as
\* ranges <<first, last>>
WordRanges ==
    {<<170, 170>>, <<178, 179>>, <<181, 181>>, <<185, 186>>, <<188, 190>>,
       <<192, 214>>, <<216, 246>>, <<248, 705>>, <<710, 721>>, <<736, 740>>,
       <<748, 748>>, <<750, 750>>, <<880, 884>>, <<886, 887>>, <<890, 893>>,
       <<895, 895>>, <<902, 902>>, <<904, 906>>, <<908, 908>>, <<910, 929>>,
       <<931, 1013>>, <<1015, 1153>>, <<1162, 1327>>, <<1329, 1366>>, <<1369, 1369>>,
       <<1376, 1416>>, <<1488, 1514>>, <<1519, 1522>>, <<1568, 1610>>, <<1632, 1641>>,
       <<1646, 1647>>, <<1649, 1747>>, <<1749, 1749>>, <<1765, 1766>>, <<1774, 1788>>,
       <<1791, 1791>>, <<1808, 1808>>, <<1810, 1839>>, <<1869, 1957>>, <<1969, 1969>>,
       <<1984, 2026>>, <<2036, 2037>>, <<2042, 2042>>, <<2048, 2069>>, <<2074, 2074>>,
       <<2084, 2084>>, <<2088, 2088>>, <<2112, 2136>>, <<2144, 2154>>, <<2160, 2183>>,
       <<2185, 2190>>, <<2208, 2249>>, <<2308, 2361>>, <<2365, 2365>>, <<2384, 2384>>,
       <<2392, 2401>>, <<2406, 2415>>, <<2417, 2432>>, <<2437, 2444>>, <<2447, 2448>>,
       <<2451, 2472>>, <<2474, 2480>>, <<2482, 2482>>, <<2486, 2489>>, <<2493, 2493>>,
       <<2510, 2510>>, <<2524, 2525>>, <<2527, 2529>>, <<2534, 2545>>, <<2548, 2553>>,
       <<2556, 2556>>, <<2565, 2570>>, <<2575, 2576>>, <<2579, 2600>>, <<2602, 2608>>,
       <<2610, 2611>>, <<2613, 2614>>, <<2616, 2617>>, <<2649, 2652>>, <<2654, 2654>>,
       <<2662, 2671>>, <<2674, 2676>>, <<2693, 2701>>, <<2703, 2705>>, <<2707, 2728>>,
       <<2730, 2736>>, <<2738, 2739>>, <<2741, 2745>>, <<2749, 2749>>, <<2768, 2768>>,
       <<2784, 2785>>, <<2790, 2799>>, <<2809, 2809>>, <<2821, 2828>>, <<2831, 2832>>,
       <<2835, 2856>>, <<2858, 2864>>, <<2866, 2867>>, <<2869, 2873>>, <<2877, 2877>>,
       <<2908, 2909>>, <<2911, 2913>>, <<2918, 2927>>, <<2929, 2935>>, <<2947, 2947>>,
       <<2949, 2954>>, <<2958, 2960>>, <<2962, 2965>>, <<2969, 2970>>, <<2972, 2972>>,
       <<2974, 2975>>, <<2979, 2980>>, <<2984, 2986>>, <<2990, 3001>>, <<3024, 3024>>,
       <<3046, 3058>>, <<3077, 3084>>, <<3086, 3088>>, <<3090, 3112>>, <<3114, 3129>>,
       <<3133, 3133>>, <<3160, 3162>>, <<3165, 3165>>, <<3168, 3169>>, <<3174, 3183>>,
       <<3192, 3198>>, <<3200, 3200>>, <<3205, 3212>>, <<3214, 3216>>, <<3218, 3240>>,
       <<3242, 3251>>, <<3253, 3257>>, <<3261, 3261>>, <<3293, 3294>>, <<3296, 3297>>,
       <<3302, 3311>>, <<3313, 3314>>, <<3332, 3340>>, <<3342, 3344>>, <<3346, 3386>>,
       <<3389, 3389>>, <<3406, 3406>>, <<3412, 3414>>, <<3416, 3425>>, <<3430, 3448>>,
       <<3450, 3455>>, <<3461, 3478>>, <<3482, 3505>>, <<3507, 3515>>, <<3517, 3517>>,
       <<3520, 3526>>, <<3558, 3567>>, <<3585, 3632>>, <<3634, 3635>>, <<3648, 3654>>,
       <<3664, 3673>>, <<3713, 3714>>, <<3716, 3716>>, <<3718, 3722>>, <<3724, 3747>>,
       <<3749, 3749>>, <<3751, 3760>>, <<3762, 3763>>, <<3773, 3773>>, <<3776, 3780>>,
       <<3782, 3782>>, <<3792, 3801>>, <<3804, 3807>>, <<3840, 3840>>, <<3872, 3891>>,
       <<3904, 3911>>, <<3913, 3948>>, <<3976, 3980>>, <<4096, 4138>>, <<4159, 4169>>,
       <<4176, 4181>>, <<4186, 4189>>, <<4193, 4193>>, <<4197, 4198>>, <<4206, 4208>>,
       <<4213, 4225>>, <<4238, 4238>>, <<4240, 4249>>, <<4256, 4293>>, <<4295, 4295>>,
       <<4301, 4301>>, <<4304, 4346>>, <<4348, 4680>>, <<4682, 4685>>, <<4688, 4694>>,
       <<4696, 4696>>, <<4698, 4701>>, <<4704, 4744>>, <<4746, 4749>>, <<4752, 4784>>,
       <<4786, 4789>>, <<4792, 4798>>, <<4800, 4800>>, <<4802, 4805>>, <<4808, 4822>>,
       <<4824, 4880>>, <<4882, 4885>>, <<4888, 4954>>, <<4969, 4988>>, <<4992, 5007>>,
       <<5024, 5109>>, <<5112, 5117>>, <<5121, 5740>>, <<5743, 5759>>, <<5761, 5786>>,
       <<5792, 5866>>, <<5870, 5880>>, <<5888, 5905>>, <<5919, 5937>>, <<5952, 5969>>,
       <<5984, 5996>>, <<5998, 6000>>, <<6016, 6067>>, <<6103, 6103>>, <<6108, 6108>>,
       <<6112, 6121>>, <<6128, 6137>>, <<6160, 6169>>, <<6176, 6264>>, <<6272, 6276>>,
       <<6279, 6312>>, <<6314, 6314>>, <<6320, 6389>>, <<6400, 6430>>, <<6470, 6509>>,
       <<6512, 6516>>, <<6528, 6571>>, <<6576, 6601>>, <<6608, 6618>>, <<6656, 6678>>,
       <<6688, 6740>>, <<6784, 6793>>, <<6800, 6809>>, <<6823, 6823>>, <<6917, 6963>>,
       <<6981, 6988>>, <<6992, 7001>>, <<7043, 7072>>, <<7086, 7141>>, <<7168, 7203>>,
       <<7232, 7241>>, <<7245, 7293>>, <<7296, 7304>>, <<7312, 7354>>, <<7357, 7359>>,
       <<7401, 7404>>, <<7406, 7411>>, <<7413, 7414>>, <<7418, 7418>>, <<7424, 7615>>,
       <<7680, 7957>>, <<7960, 7965>>, <<7968, 8005>>, <<8008, 8013>>, <<8016, 8023>>,
       <<8025, 8025>>, <<8027, 8027>>, <<8029, 8029>>, <<8031, 8061>>, <<8064, 8116>>,
       <<8118, 8124>>, <<8126, 8126>>, <<8130, 8132>>, <<8134, 8140>>, <<8144, 8147>>,
       <<8150, 8155>>, <<8160, 8172>>, <<8178, 8180>>, <<8182, 8188>>, <<8304, 8305>>,
       <<8308, 8313>>, <<8319, 8329>>, <<8336, 8348>>, <<8450, 8450>>, <<8455, 8455>>,
       <<8458, 8467>>, <<8469, 8469>>, <<8473, 8477>>, <<8484, 8484>>, <<8486, 8486>>,
       <<8488, 8488>>, <<8490, 8493>>, <<8495, 8505>>, <<8508, 8511>>, <<8517, 8521>>,
       <<8526, 8526>>, <<8528, 8585>>, <<9312, 9371>>, <<9450, 9471>>, <<10102, 10131>>,
       <<11264, 11492>>, <<11499, 11502>>, <<11506, 11507>>, <<11517, 11517>>, <<11520, 11557>>,
       <<11559, 11559>>, <<11565, 11565>>, <<11568, 11623>>, <<11631, 11631>>, <<11648, 11670>>,
       <<11680, 11686>>, <<11688, 11694>>, <<11696, 11702>>, <<11704, 11710>>, <<11712, 11718>>,
       <<11720, 11726>>, <<11728, 11734>>, <<11736, 11742>>, <<11823, 11823>>, <<12293, 12295>>,
       <<12321, 12329>>, <<12337, 12341>>, <<12344, 12348>>, <<12353, 12438>>, <<12445, 12447>>,
       <<12449, 12538>>, <<12540, 12543>>, <<12549, 12591>>, <<12593, 12686>>, <<12690, 12693>>,
       <<12704, 12735>>, <<12784, 12799>>, <<12832, 12841>>, <<12872, 12879>>, <<12881, 12895>>,
       <<12928, 12937>>, <<12977, 12991>>, <<13312, 19903>>, <<19968, 42124>>, <<42192, 42237>>,
       <<42240, 42508>>, <<42512, 42539>>, <<42560, 42606>>, <<42623, 42653>>, <<42656, 42735>>,
       <<42775, 42783>>, <<42786, 42888>>, <<42891, 42954>>, <<42960, 42961>>, <<42963, 42963>>,
       <<42965, 42969>>, <<42994, 43009>>, <<43011, 43013>>, <<43015, 43018>>, <<43020, 43042>>,
       <<43056, 43061>>, <<43072, 43123>>, <<43138, 43187>>, <<43216, 43225>>, <<43250, 43255>>,
       <<43259, 43259>>, <<43261, 43262>>, <<43264, 43301>>, <<43312, 43334>>, <<43360, 43388>>,
       <<43396, 43442>>, <<43471, 43481>>, <<43488, 43492>>, <<43494, 43518>>, <<43520, 43560>>,
       <<43584, 43586>>, <<43588, 43595>>, <<43600, 43609>>, <<43616, 43638>>, <<43642, 43642>>,
       <<43646, 43695>>, <<43697, 43697>>, <<43701, 43702>>, <<43705, 43709>>, <<43712, 43712>>,
       <<43714, 43714>>, <<43739, 43741>>, <<43744, 43754>>, <<43762, 43764>>, <<43777, 43782>>,
       <<43785, 43790>>, <<43793, 43798>>, <<43808, 43814>>, <<43816, 43822>>, <<43824, 43866>>,
       <<43868, 43881>>, <<43888, 44002>>, <<44016, 44025>>, <<44032, 55203>>, <<55216, 55238>>,
       <<55243, 55291>>, <<63744, 64109>>, <<64112, 64217>>, <<64256, 64262>>, <<64275, 64279>>,
       <<64285, 64285>>, <<64287, 64296>>, <<64298, 64310>>, <<64312, 64316>>, <<64318, 64318>>,
       <<64320, 64321>>, <<64323, 64324>>, <<64326, 64433>>, <<64467, 64829>>, <<64848, 64911>>,
       <<64914, 64967>>, <<65008, 65019>>, <<65136, 65140>>, <<65142, 65276>>, <<65296, 65305>>,
       <<65313, 65338>>, <<65345, 65370>>, <<65382, 65470>>, <<65474, 65479>>, <<65482, 65487>>,
       <<65490, 65495>>, <<65498, 65500>>, <<65536, 65547>>, <<65549, 65574>>, <<65576, 65594>>,
       <<65596, 65597>>, <<65599, 65613>>, <<65616, 65629>>, <<65664, 65786>>, <<65799, 65843>>,
       <<65856, 65912>>, <<65930, 65931>>, <<66176, 66204>>, <<66208, 66256>>, <<66273, 66299>>,
       <<66304, 66339>>, <<66349, 66378>>, <<66384, 66421>>, <<66432, 66461>>, <<66464, 66499>>,
       <<66504, 66511>>, <<66513, 66517>>, <<66560, 66717>>, <<66720, 66729>>, <<66736, 66771>>,
       <<66776, 66811>>, <<66816, 66855>>, <<66864, 66915>>, <<66928, 66938>>, <<66940, 66954>>,
       <<66956, 66962>>, <<66964, 66965>>, <<66967, 66977>>, <<66979, 66993>>, <<66995, 67001>>,
       <<67003, 67004>>, <<67072, 67382>>, <<67392, 67413>>, <<67424, 67431>>, <<67456, 67461>>,
       <<67463, 67504>>, <<67506, 67514>>, <<67584, 67589>>, <<67592, 67592>>, <<67594, 67637>>,
       <<67639, 67640>>, <<67644, 67644>>, <<67647, 67669>>, <<67672, 67702>>, <<67705, 67742>>,
       <<67751, 67759>>, <<67808, 67826>>, <<67828, 67829>>, <<67835, 67867>>, <<67872, 67897>>,
       <<67968, 68023>>, <<68028, 68047>>, <<68050, 68096>>, <<68112, 68115>>, <<68117, 68119>>,
       <<68121, 68149>>, <<68160, 68168>>, <<68192, 68222>>, <<68224, 68255>>, <<68288, 68295>>,
       <<68297, 68324>>, <<68331, 68335>>, <<68352, 68405>>, <<68416, 68437>>, <<68440, 68466>>,
       <<68472, 68497>>, <<68521, 68527>>, <<68608, 68680>>, <<68736, 68786>>, <<68800, 68850>>,
       <<68858, 68899>>, <<68912, 68921>>, <<69216, 69246>>, <<69248, 69289>>, <<69296, 69297>>,
       <<69376, 69415>>, <<69424, 69445>>, <<69457, 69460>>, <<69488, 69505>>, <<69552, 69579>>,
       <<69600, 69622>>, <<69635, 69687>>, <<69714, 69743>>, <<69745, 69746>>, <<69749, 69749>>,
       <<69763, 69807>>, <<69840, 69864>>, <<69872, 69881>>, <<69891, 69926>>, <<69942, 69951>>,
       <<69956, 69956>>, <<69959, 69959>>, <<69968, 70002>>, <<70006, 70006>>, <<70019, 70066>>,
       <<70081, 70084>>, <<70096, 70106>>, <<70108, 70108>>, <<70113, 70132>>, <<70144, 70161>>,
       <<70163, 70187>>, <<70272, 70278>>, <<70280, 70280>>, <<70282, 70285>>, <<70287, 70301>>,
       <<70303, 70312>>, <<70320, 70366>>, <<70384, 70393>>, <<70405, 70412>>, <<70415, 70416>>,
       <<70419, 70440>>, <<70442, 70448>>, <<70450, 70451>>, <<70453, 70457>>, <<70461, 70461>>,
       <<70480, 70480>>, <<70493, 70497>>, <<70656, 70708>>, <<70727, 70730>>, <<70736, 70745>>,
       <<70751, 70753>>, <<70784, 70831>>, <<70852, 70853>>, <<70855, 70855>>, <<70864, 70873>>,
       <<71040, 71086>>, <<71128, 71131>>, <<71168, 71215>>, <<71236, 71236>>, <<71248, 71257>>,
       <<71296, 71338>>, <<71352, 71352>>, <<71360, 71369>>, <<71424, 71450>>, <<71472, 71483>>,
       <<71488, 71494>>, <<71680, 71723>>, <<71840, 71922>>, <<71935, 71942>>, <<71945, 71945>>,
       <<71948, 71955>>, <<71957, 71958>>, <<71960, 71983>>, <<71999, 71999>>, <<72001, 72001>>,
       <<72016, 72025>>, <<72096, 72103>>, <<72106, 72144>>, <<72161, 72161>>, <<72163, 72163>>,
       <<72192, 72192>>, <<72203, 72242>>, <<72250, 72250>>, <<72272, 72272>>, <<72284, 72329>>,
       <<72349, 72349>>, <<72368, 72440>>, <<72704, 72712>>, <<72714, 72750>>, <<72768, 72768>>,
       <<72784, 72812>>, <<72818, 72847>>, <<72960, 72966>>, <<72968, 72969>>, <<72971, 73008>>,
       <<73030, 73030>>, <<73040, 73049>>, <<73056, 73061>>, <<73063, 73064>>, <<73066, 73097>>,
       <<73112, 73112>>, <<73120, 73129>>, <<73440, 73458>>, <<73648, 73648>>, <<73664, 73684>>,
       <<73728, 74649>>, <<74752, 74862>>, <<74880, 75075>>, <<77712, 77808>>, <<77824, 78894>>,
       <<82944, 83526>>, <<92160, 92728>>, <<92736, 92766>>, <<92768, 92777>>, <<92784, 92862>>,
       <<92864, 92873>>, <<92880, 92909>>, <<92928, 92975>>, <<92992, 92995>>, <<93008, 93017>>,
       <<93019, 93025>>, <<93027, 93047>>, <<93053, 93071>>, <<93760, 93846>>, <<93952, 94026>>,
       <<94032, 94032>>, <<94099, 94111>>, <<94176, 94177>>, <<94179, 94179>>, <<94208, 100343>>,
       <<100352, 101589>>, <<101632, 101640>>, <<110576, 110579>>, <<110581, 110587>>, <<110589, 110590>>,
       <<110592, 110882>>, <<110928, 110930>>, <<110948, 110951>>, <<110960, 111355>>, <<113664, 113770>>,
       <<113776, 113788>>, <<113792, 113800>>, <<113808, 113817>>, <<119520, 119539>>, <<119648, 119672>>,
       <<119808, 119892>>, <<119894, 119964>>, <<119966, 119967>>, <<119970, 119970>>, <<119973, 119974>>,
       <<119977, 119980>>, <<119982, 119993>>, <<119995, 119995>>, <<119997, 120003>>, <<120005, 120069>>,
       <<120071, 120074>>, <<120077, 120084>>, <<120086, 120092>>, <<120094, 120121>>, <<120123, 120126>>,
       <<120128, 120132>>, <<120134, 120134>>, <<120138, 120144>>, <<120146, 120485>>, <<120488, 120512>>,
       <<120514, 120538>>, <<120540, 120570>>, <<120572, 120596>>, <<120598, 120628>>, <<120630, 120654>>,
       <<120656, 120686>>, <<120688, 120712>>, <<120714, 120744>>, <<120746, 120770>>, <<120772, 120779>>,
       <<120782, 120831>>, <<122624, 122654>>, <<123136, 123180>>, <<123191, 123197>>, <<123200, 123209>>,
       <<123214, 123214>>, <<123536, 123565>>, <<123584, 123627>>, <<123632, 123641>>, <<124896, 124902>>,
       <<124904, 124907>>, <<124909, 124910>>, <<124912, 124926>>, <<124928, 125124>>, <<125127, 125135>>,
       <<125184, 125251>>, <<125259, 125259>>, <<125264, 125273>>, <<126065, 126123>>, <<126125, 126127>>,
       <<126129, 126132>>, <<126209, 126253>>, <<126255, 126269>>, <<126464, 126467>>, <<126469, 126495>>,
       <<126497, 126498>>, <<126500, 126500>>, <<126503, 126503>>, <<126505, 126514>>, <<126516, 126519>>,
       <<126521, 126521>>, <<126523, 126523>>, <<126530, 126530>>, <<126535, 126535>>, <<126537, 126537>>,
       <<126539, 126539>>, <<126541, 126543>>, <<126545, 126546>>, <<126548, 126548>>, <<126551, 126551>>,
       <<126553, 126553>>, <<126555, 126555>>, <<126557, 126557>>, <<126559, 126559>>, <<126561, 126562>>,
       <<126564, 126564>>, <<126567, 126570>>, <<126572, 126578>>, <<126580, 126583>>, <<126585, 126588>>,
       <<126590, 126590>>, <<126592, 126601>>, <<126603, 126619>>, <<126625, 126627>>, <<126629, 126633>>,
       <<126635, 126651>>, <<127232, 127244>>, <<130032, 130041>>, <<131072, 173791>>, <<173824, 177976>>,
       <<177984, 178205>>, <<178208, 183969>>, <<183984, 191456>>, <<194560, 195101>>, <<196608, 201546>>}

\* the character classes of the patterns of main.py
\* ("id" is [a-zA-Z0-9_-], "word" is [\w-], "notslash" is [^/])
InClass(cls, c) ==
    CASE cls = "id"       -> c \in IdChars
      [] cls = "word"     ->
            IF c < 128 THEN c \in IdChars
            ELSE \E range \in WordRanges : range[1] <= c /\ c <= range[2]
      [] cls = "notslash" -> c # 47

SetMin(S) == CHOOSE x \in S : \A y \in S : x <= y

RECURSIVE Concat(_)
Concat(ss) == IF ss = <<>> THEN <<>> ELSE Head(ss) \o Concat(Tail(ss))

NoMatch == [matched |-> FALSE, group |-> <<>>]

\* re.search(lit + "(" + prefix + "[cls]+)", s): the leftmost place where the
\* literal text lit \o prefix is followed by a character of the class; the
\* group is prefix and the longest run of class characters after it.
re_search(lit, prefix, cls, s) ==
    LET l == lit \o prefix
        n == Len(l)
        starts == {p \in 1..Len(s) :
                      /\ p + n <= Len(s)
                      /\ s[p] = l[1]
                      /\ SubSeq(s, p, p + n - 1) = l
                      /\ InClass(cls, s[p + n])}
    IN  IF starts = {} THEN NoMatch
        ELSE LET p == SetMin(starts)
                 q == CHOOSE k \in (p + n)..Len(s) :
                         /\ \A j \in (p + n)..k : InClass(cls, s[j])
                         /\ k = Len(s) \/ ~ InClass(cls, s[k + 1])
             IN  [matched |-> TRUE, group |-> prefix \o SubSeq(s, p + n, q)]

-----------------------------------------------------------------------------
(* extract_video_id                                                        *)

WatchLit == str("youtube.com/watch?v=")
ShortLit == str("youtu.be/")
VLit     == str("youtube.com/v/")
EmbedLit == str("youtube.com/embed/")

video_patterns == <<WatchLit, ShortLit, VLit, EmbedLit>>

RECURSIVE video_id_loop(_, _, _)
video_id_loop(patterns, i, url) ==
    IF i > Len(patterns) THEN url
    ELSE LET match == re_search(patterns[i], <<>>, "id", url)
         IN  IF match.matched THEN match.group
             ELSE video_id_loop(patterns, i + 1, url)

\* the mutant: the patterns are tried in the reverse order
extract_video_id_reversed(url) ==
    video_id_loop(<<EmbedLit, VLit, ShortLit, WatchLit>>, 1, url)

extract_video_id(url) == video_id_loop(video_patterns, 1, url)

-----------------------------------------------------------------------------
(* extract_channel_id and its resolvers                                    *)

\* the characters str.strip() removes (those str.isspace() holds for)
Whitespace ==
    {9, 10, 11, 12, 13, 28, 29, 30, 31, 32, 133, 160, 5760, 8232, 8233, 8239,
     8287, 12288} \cup 8192..8202

\* s without its leading characters of chars
lstrip(s, chars) ==
    IF \A i \in 1..Len(s) : s[i] \in chars THEN <<>>
    ELSE SubSeq(s, CHOOSE i \in 1..Len(s) :
                       s[i] \notin chars /\ \A j \in 1..(i - 1) : s[j] \in chars,
                Len(s))

\* s without its trailing characters of chars
rstrip(s, chars) ==
    IF \A i \in 1..Len(s) : s[i] \in chars THEN <<>>
    ELSE SubSeq(s, 1, CHOOSE i \in 1..Len(s) :
                          s[i] \notin chars /\ \A j \in (i + 1)..Len(s) : s[j] \in chars)

\* str.strip()
strip(s) == rstrip(lstrip(s, Whitespace), Whitespace)

ChannelLit == str("youtube.com/channel/")
CustomLit  == str("youtube.com/c/")
HandleLit  == str("youtube.com/@")
UserLit    == str("youtube.com/user/")

\* the (pattern, resolver) pairs, in the order of the list
channel_patterns ==
    << [lit |-> ChannelLit, prefix |-> str("UC"), cls |-> "word",
        resolver |-> "direct"],
       [lit |-> CustomLit, prefix |-> <<>>, cls |-> "notslash",
        resolver |-> "resolve_custom_url"],
       [lit |-> HandleLit, prefix |-> <<>>, cls |-> "notslash",
        resolver |-> "resolve_custom_handle"],
       [lit |-> UserLit, prefix |-> <<>>, cls |-> "notslash",
        resolver |-> "resolve_username"] >>

\* A value a resolver hands back: an exception, None, or a text.
Raised      == [raised |-> TRUE,  none |-> FALSE, value |-> <<>>]
None        == [raised |-> FALSE, none |-> TRUE,  value |-> <<>>]
Returned(v) == [raised |-> FALSE, none |-> FALSE, value |-> v]

\* the mutant: "is not None" in place of the truth value, so that an answer
\* without a usable identifier ends the resolution
Truthy_not_raised(r) == ~ r.raised

\* Python's truth value of an Optional[str]
Truthy(r) == ~ r.raised /\ ~ r.none /\ r.value # <<>>

\* The body shared by resolve_custom_url, resolve_custom_handle,
\* resolve_username and resolve_channel_url: the request is executed; the
\* first item's channel identifier is returned, None when there are no items;
\* any exception (of the call, or of reading a malformed item) is raised
\* again as Exception("Failed to resolve ...").
\* A response is [raises |-> BOOLEAN, items |-> sequence of items], an item
\* [wellformed |-> BOOLEAN, channelId |-> text].
resolve_lookup(response) ==
    IF response.raises THEN Raised
    ELSE IF response.items = <<>> THEN None
    ELSE IF ~ response.items[1].wellformed THEN Raised
    ELSE Returned(response.items[1].channelId)

\* the query each resolver sends
lookup_query(resolver, x) ==
    [resolver |-> resolver,
     api |-> IF resolver = "resolve_username" THEN "channels" ELSE "search",
     q   |-> IF resolver = "resolve_custom_handle" THEN str("@") \o x ELSE x]

\* the final fallback (lines 109-114): resolve the entire URL; an exception
\* is caught and None returned
resolve_whole_url(url, svc, lookups) ==
    LET r == resolve_lookup(svc["resolve_channel_url"])
        q == lookup_query("resolve_channel_url", url)
    IN  [result  |-> IF r.raised THEN None ELSE r,
         lookups |-> Append(lookups, q)]

\* the loop over the patterns (lines 97-107), from pattern i on
RECURSIVE channel_id_loop(_, _, _, _)
channel_id_loop(i, url, svc, lookups) ==
    IF i > Len(channel_patterns)
    THEN resolve_whole_url(url, svc, lookups)
    ELSE LET pat == channel_patterns[i]
             match == re_search(pat.lit, pat.prefix, pat.cls, url)
         IN  IF ~ match.matched
             THEN channel_id_loop(i + 1, url, svc, lookups)
             ELSE IF pat.resolver = "direct"
             THEN IF match.group # <<>>
                  THEN [result |-> Returned(match.group), lookups |-> lookups]
                  ELSE channel_id_loop(i + 1, url, svc, lookups)
             ELSE LET r == resolve_lookup(svc[pat.resolver])
                      ls == Append(lookups, lookup_query(pat.resolver, match.group))
                  IN  IF Truthy(r)
                      THEN [result |-> r, lookups |-> ls]
                      ELSE channel_id_loop(i + 1, url, svc, ls)

\* extract_channel_id(channel_url) against a lookup service svc, which maps
\* each resolver to the response its request gets: the result and the
\* lookups issued, in order
extract_channel_id(url, svc) ==
    channel_id_loop(1, rstrip(strip(url), {47}), svc, <<>>)

-----------------------------------------------------------------------------
(* get_channel_videos                                                      *)

\* An item of a search response, as the filter of lines 276-279 sees it:
\* shape is "dict" (a dict whose 'id' is a dict), "notdict" (no dict at all),
\* "noid" (a dict without 'id') or "idnotdict"; videoId is item['id'].get(
\* 'videoId'): None when the key is absent, else a text (possibly empty).
VideoItem(v)    == [shape |-> "dict", videoId |-> Returned(v)]
ItemNoVideoId   == [shape |-> "dict", videoId |-> None]
ItemNotDict     == [shape |-> "notdict", videoId |-> None]
ItemNoId        == [shape |-> "noid", videoId |-> None]
ItemIdNotDict   == [shape |-> "idnotdict", videoId |-> None]

\* the identifiers one page's items add to video_ids (lines 275-279)
RECURSIVE page_video_ids(_)
page_video_ids(items) ==
    IF items = <<>> THEN <<>>
    ELSE LET item == Head(items)
         IN  (IF item.shape = "dict" /\ Truthy(item.videoId)
              THEN <<item.videoId.value>> ELSE <<>>)
             \o page_video_ids(Tail(items))

\* The while loop of lines 261-290 from the k-th search call on; pages[k] is
\* what that call gets: [raises, items, nextPageToken]. The result is the
\* list returned and the number of calls made.
RECURSIVE videos_loop(_, _, _)
videos_loop(k, pages, ids) ==
    IF k > Len(pages) THEN [raised |-> FALSE, video_ids |-> ids, calls |-> k - 1]
    ELSE LET response == pages[k]
         IN  IF response.raises
             THEN [raised |-> FALSE, video_ids |-> ids, calls |-> k]
             ELSE LET ids2 == ids \o page_video_ids(response.items)
                  IN  IF ~ Truthy(response.nextPageToken)
                      THEN [raised |-> FALSE, video_ids |-> ids2, calls |-> k]
                      ELSE videos_loop(k + 1, pages, ids2)

\* the mutant: a failing page call loses what the earlier pages gave
get_channel_videos_all_or_nothing(build_ok, pages) ==
    LET r == videos_loop(1, pages, <<>>)
    IN  IF ~ build_ok THEN [raised |-> TRUE, video_ids |-> <<>>, calls |-> 0]
        ELSE IF r.calls >= 1 /\ pages[r.calls].raises
        THEN [raised |-> FALSE, video_ids |-> <<>>, calls |-> r.calls]
        ELSE r

\* get_channel_videos(channel_id) against a service that answers the k-th
\* page call with pages[k]; build_ok is whether building the client (line
\* 256, outside the try) succeeds
get_channel_videos(build_ok, pages) ==
    IF ~ build_ok THEN [raised |-> TRUE, video_ids |-> <<>>, calls |-> 0]
    ELSE videos_loop(1, pages, <<>>)

-----------------------------------------------------------------------------
(* Python floats (IEEE 754 binary64), as far as save_transcript uses them.  *)
(* A non-negative float is [m, s]: the value m / 2^s, where m is a natural  *)
(* number of at most 53 significant bits. m does not fit a machine integer  *)
(* of TLC, so it is written in limbs of 15 bits, lowest first,              *)
(* without leading zero limbs.                                              *)

LimbBits == 15
LimbBase == 2^15

\* the limbs of the natural number n
RECURSIVE Limbs(_)
Limbs(n) == IF n = 0 THEN <<>> ELSE <<n % LimbBase>> \o Limbs(n \div LimbBase)

\* the natural number of the limbs b (it must fit)
RECURSIVE NatOf(_)
NatOf(b) == IF b = <<>> THEN 0 ELSE Head(b) + LimbBase * NatOf(Tail(b))

RECURSIVE Trim(_)
Trim(b) == IF b # <<>> /\ b[Len(b)] = 0 THEN Trim(SubSeq(b, 1, Len(b) - 1)) ELSE b

\* the number of significant bits
BitLenSmall(x) == CHOOSE k \in 0..LimbBits : x < 2^k /\ (k = 0 \/ x >= 2^(k - 1))
BitLen(b) == IF b = <<>> THEN 0 ELSE (Len(b) - 1) * LimbBits + BitLenSmall(b[Len(b)])

RECURSIVE AddCarry(_, _, _)
AddCarry(a, b, c) ==
    IF a = <<>> /\ b = <<>> THEN (IF c = 0 THEN <<>> ELSE <<c>>)
    ELSE <<((IF a = <<>> THEN 0 ELSE Head(a)) + (IF b = <<>> THEN 0 ELSE Head(b)) + c)
             % LimbBase>>
         \o AddCarry(IF a = <<>> THEN a ELSE Tail(a),
                     IF b = <<>> THEN b ELSE Tail(b),
                     ((IF a = <<>> THEN 0 ELSE Head(a))
                        + (IF b = <<>> THEN 0 ELSE Head(b)) + c) \div LimbBase)

AddBig(a, b) == AddCarry(a, b, 0)

\* b * k for a natural k below 2^15
RECURSIVE MulCarry(_, _, _)
MulCarry(b, k, c) ==
    IF b = <<>> THEN Limbs(c)
    ELSE <<(Head(b) * k + c) % LimbBase>>
         \o MulCarry(Tail(b), k, (Head(b) * k + c) \div LimbBase)

MulSmall(b, k) == Trim(MulCarry(b, k, 0))

\* b divided by a natural d below 2^15, highest limb first: quotient and
\* remainder
RECURSIVE DivFrom(_, _, _, _)
DivFrom(b, d, i, r) ==
    IF i = 0 THEN [q |-> <<>>, r |-> r]
    ELSE LET rest == DivFrom(b, d, i - 1, (r * LimbBase + b[i]) % d)
         IN  [q |-> Append(rest.q, (r * LimbBase + b[i]) \div d), r |-> rest.r]

DivSmall(b, d) ==
    LET x == DivFrom(b, d, Len(b), 0) IN [q |-> Trim(x.q), r |-> x.r]

\* b * 2^k, floor(b / 2^k), b mod 2^k, and bit number k (from 1) of b
ShiftLeft(b, k) ==
    IF b = <<>> THEN <<>>
    ELSE [i \in 1..(k \div LimbBits) |-> 0] \o MulSmall(b, 2^(k % LimbBits))
ShiftRight(b, k) ==
    DivSmall(SubSeq(b, (k \div LimbBits) + 1, Len(b)), 2^(k % LimbBits)).q
LowBits(b, k) ==
    IF k >= Len(b) * LimbBits THEN b
    ELSE Trim(SubSeq(b, 1, k \div LimbBits)
              \o <<b[(k \div LimbBits) + 1] % 2^(k % LimbBits)>>)
BitAt(b, k) ==
    (b[((k - 1) \div LimbBits) + 1] \div 2^((k - 1) % LimbBits)) % 2

\* m / 2^s (plus a nonzero amount below its lowest bit when sticky) rounded
\* to the nearest float, ties to even
RoundFloat(m, s, sticky) ==
    IF BitLen(m) <= 53 THEN [m |-> m, s |-> s]
    ELSE LET d == BitLen(m) - 53
             q == ShiftRight(m, d)
             up == /\ BitAt(m, d) = 1
                   /\ (LowBits(m, d - 1) # <<>> \/ sticky \/ q[1] % 2 = 1)
             q2 == IF up THEN AddBig(q, <<1>>) ELSE q
         IN  IF BitLen(q2) > 53
             THEN [m |-> ShiftRight(q2, 1), s |-> s - d - 1]
             ELSE [m |-> q2, s |-> s - d]

\* float("<n/1000 written in decimal>"): the float nearest to n milliseconds
\* in seconds, as the transcript API hands 'start' and 'duration' over
FloatOfMillis(n) ==
    IF n = 0 THEN [m |-> <<>>, s |-> 0]
    ELSE LET x == DivSmall(ShiftLeft(Limbs(n), 64), 1000)
         IN  RoundFloat(x.q, 64, x.r # 0)

\* a + b
FloatAdd(a, b) ==
    LET s == IF a.s > b.s THEN a.s ELSE b.s
    IN  RoundFloat(AddBig(ShiftLeft(a.m, s - a.s), ShiftLeft(b.m, s - b.s)),
                   s, FALSE)

\* a * k for a natural k below 2^15
FloatMulSmall(a, k) == RoundFloat(MulSmall(a.m, k), a.s, FALSE)

\* a % 1 (exact)
FloatFrac(a) == [m |-> LowBits(a.m, a.s), s |-> a.s]

\* int(a)
FloatInt(a) == NatOf(ShiftRight(a.m, a.s))

-----------------------------------------------------------------------------
(* save_transcript, the SRT branch                                         *)

RECURSIVE DecimalDigits(_)
DecimalDigits(n) ==
    IF n < 10 THEN <<48 + n>>
    ELSE Append(DecimalDigits(n \div 10), 48 + (n % 10))

\* f"{n:0{width}d}"
RECURSIVE ZeroPad(_, _)
ZeroPad(digits, width) ==
    IF Len(digits) >= width THEN digits ELSE ZeroPad(str("0") \o digits, width)

\* lines 68-69: the HH:MM:SS,mmm text of the float t. For a float below
\* 2^31, t//3600, (t%3600)//60 and t%60 lose nothing: % and // are exact on
\* these operands, so the three fields are those of int(t); the milliseconds
\* are int((t%1)*1000), a rounded product cut off towards zero.
srt_time(t) ==
    LET whole == FloatInt(t)
        millis == FloatInt(FloatMulSmall(FloatFrac(t), 1000))
    IN  ZeroPad(DecimalDigits(whole \div 3600), 2) \o str(":")
        \o ZeroPad(DecimalDigits((whole % 3600) \div 60), 2) \o str(":")
        \o ZeroPad(DecimalDigits(whole % 60), 2) \o str(",")
        \o ZeroPad(DecimalDigits(millis), 3)

Arrow == str(" --> ")

\* lines 62-73: the lines written for the i-th entry of the transcript; an
\* entry is [text, start, has_duration, duration], start and duration floats
srt_cue(i, entry) ==
    LET start == entry.start
        duration == IF entry.has_duration THEN entry.duration
                    ELSE [m |-> <<>>, s |-> 0]
        end == FloatAdd(start, duration)
    IN  << DecimalDigits(i),
           srt_time(start) \o Arrow \o srt_time(end),
           entry.text,
           <<>> >>

\* what save_transcript(transcript, output_file, OutputFormat.SRT) writes:
\* the lines of the file, cue after cue
save_transcript_srt(transcript) ==
    [i \in 1..Len(transcript) |-> srt_cue(i, transcript[i])]

-----------------------------------------------------------------------------
(* The state after construction: main() is about to display the menu.      *)

NotCalled == <<>>

MainInit ==
    /\ pc = "menu"
    /\ choice = 0
    /\ channel_url = <<>>
    /\ video_url = <<>>
    /\ channel_id = <<>>
    /\ output_format = "none"
    /\ video_ids = <<>>
    /\ video_urls = <<>>
    /\ idx = 0
    /\ successful = 0
    /\ failed = 0
    /\ no_captions = 0
    /\ dirs = {}
    /\ files = <<>>
    /\ events = <<>>
    /\ console = "none"
    /\ exit_status = -1
    /\ stdin_line = <<>>
    /\ file_path = <<>>
    /\ file_lines = <<>>

-----------------------------------------------------------------------------
(* What the claims mean by "the pattern matches" and "its capture", stated *)
(* on the text itself rather than by the search.                           *)

\* the text lit followed by a character of the class occurs in s
PatternMatches(lit, cls, s) ==
    \E p \in 1..Len(s) :
        /\ p + Len(lit) <= Len(s)
        /\ s[p] = lit[1]
        /\ SubSeq(s, p, p + Len(lit) - 1) = lit
        /\ InClass(cls, s[p + Len(lit)])

\* g is the run of class characters that follows the leftmost occurrence of
\* lit that is followed by one
IsCapture(lit, cls, s, g) ==
    \E p \in 1..Len(s) :
        /\ p + Len(lit) <= Len(s)
        /\ s[p] = lit[1]
        /\ SubSeq(s, p, p + Len(lit) - 1) = lit
        /\ InClass(cls, s[p + Len(lit)])
        /\ ~ PatternMatches(lit, cls, SubSeq(s, 1, p + Len(lit) - 1))
        /\ Len(g) >= 1
        /\ p + Len(lit) + Len(g) - 1 <= Len(s)
        /\ g = SubSeq(s, p + Len(lit), p + Len(lit) + Len(g) - 1)
        /\ \A k \in 1..Len(g) : InClass(cls, g[k])
        /\ \/ p + Len(lit) + Len(g) > Len(s)
           \/ ~ InClass(cls, s[p + Len(lit) + Len(g)])

-----------------------------------------------------------------------------
(* extract_video_id on its own: SpecVideoId applies it to every text made  *)
(* of up to MaxVideoFrags fragments, and then once more to its result.     *)

VideoFrags ==
    {WatchLit, ShortLit, VLit, EmbedLit,
     str("youtube"), str("com/v/"),
     str("a"), str("Z9"), str("_"), str("-"), str("."), str("/"), str("&")}

TextsOf(frags, n) ==
    {Concat(f) : f \in UNION {[1..k -> frags] : k \in 0..n}}

VideoUrlInputs == TextsOf(VideoFrags, MaxVideoFrags)

InitVideoId ==
    /\ MainInit
    /\ arg \in VideoUrlInputs
    /\ ret = NotCalled

\* the call extract_video_id(arg)
CallExtractVideoId ==
    /\ ret = NotCalled
    /\ ret' = <<extract_video_id(arg)>>
    /\ UNCHANGED <<arg, mainVars>>

\* the call extract_video_id(r) on the identifier r the first call returned
ReapplyExtractVideoId ==
    /\ Len(ret) = 1
    /\ ret' = Append(ret, extract_video_id(ret[1]))
    /\ UNCHANGED <<arg, mainVars>>

NextVideoId == CallExtractVideoId \/ ReapplyExtractVideoId

SpecVideoId == InitVideoId /\ [][NextVideoId]_vars

VideoPatternMatches(lit, s) == PatternMatches(lit, "id", s)
IsVideoCapture(lit, s, g) == IsCapture(lit, "id", s, g)

\* C9: extract_video_id returns the capture of the first pattern, in the order
\* watch?v=, youtu.be/, /v/, /embed/, that matches (also when a later pattern
\* matches too); when none matches it returns its input unchanged; applied
\* again to the identifier it returned, it returns that identifier.
C9_FirstMatchWins ==
    Len(ret) >= 1 =>
        /\ \A i \in 1..4 :
              ( /\ VideoPatternMatches(video_patterns[i], arg)
                /\ \A j \in 1..(i - 1) : ~ VideoPatternMatches(video_patterns[j], arg) )
              => IsVideoCapture(video_patterns[i], arg, ret[1])
        /\ (\A i \in 1..4 : ~ VideoPatternMatches(video_patterns[i], arg))
              => ret[1] = arg
        /\ Len(ret) = 2 => ret[2] = ret[1]

\* a URL in which youtu.be/ comes first in the text and watch?v= later: the
\* watch?v= capture was returned, and returned again by the second call
C9_Witness ==
    /\ Len(ret) = 2
    /\ VideoPatternMatches(WatchLit, arg)
    /\ VideoPatternMatches(ShortLit, arg)
    /\ SubSeq(arg, 1, Len(ShortLit)) = ShortLit
    /\ ret[1] # arg
    /\ IsVideoCapture(WatchLit, arg, ret[1])
    /\ ~ IsVideoCapture(ShortLit, arg, ret[1])

-----------------------------------------------------------------------------
(* extract_channel_id on its own: SpecResolve applies it to every text     *)
(* made of up to MaxChannelFrags fragments, against every lookup service   *)
(* that answers each resolver by raising, with no items, or with an item.  *)

RespRaises    == [raises |-> TRUE, items |-> <<>>]
RespNoItems   == [raises |-> FALSE, items |-> <<>>]
RespItem(id)  == [raises |-> FALSE,
                  items |-> <<[wellformed |-> TRUE, channelId |-> id]>>]
RespMalformed == [raises |-> FALSE,
                  items |-> <<[wellformed |-> FALSE, channelId |-> <<>>]>>]

ChannelFrags ==
    {ChannelLit \o str("UC") \o <<233>> \o str("-1/"),
     CustomLit \o str("cc/"),
     HandleLit \o str("hh/"),
     UserLit \o str("uu/"),
     <<160>>}

ChannelUrlInputs == TextsOf(ChannelFrags, MaxChannelFrags)

LookupServices ==
    {[r \in {"resolve_custom_url", "resolve_custom_handle",
             "resolve_username", "resolve_channel_url"} |->
         CASE r = "resolve_custom_url"    -> c
           [] r = "resolve_custom_handle" -> h
           [] r = "resolve_username"      -> u
           [] r = "resolve_channel_url"   -> w] :
       c \in {RespRaises, RespNoItems, RespItem(str("UCc"))},
       h \in {RespRaises, RespNoItems, RespItem(str("UCh"))},
       u \in {RespRaises, RespNoItems, RespItem(str("UCu"))},
       w \in {RespRaises, RespNoItems, RespMalformed,
              RespItem(str("UCw"))}}

InitResolve ==
    /\ MainInit
    /\ arg \in [url : ChannelUrlInputs, svc : LookupServices]
    /\ ret = NotCalled

\* the call extract_channel_id(arg.url)
CallExtractChannelId ==
    /\ ret = NotCalled
    /\ ret' = <<extract_channel_id(arg.url, arg.svc)>>
    /\ UNCHANGED <<arg, mainVars>>

NextResolve == CallExtractChannelId

SpecResolve == InitResolve /\ [][NextResolve]_vars

\* the strategies that apply to url, in the order of the claim: the patterns
\* present in the cleaned URL, then the free-text search
RECURSIVE ApplicableFrom(_, _)
ApplicableFrom(i, url) ==
    IF i > 4 THEN <<"resolve_channel_url">>
    ELSE LET pat == channel_patterns[i]
         IN  (IF PatternMatches(pat.lit \o pat.prefix, pat.cls, url)
              THEN <<pat.resolver>> ELSE <<>>) \o ApplicableFrom(i + 1, url)

Applicable(url) == ApplicableFrom(1, rstrip(strip(url), {47}))

\* the strategy yields a non-empty channel identifier
Yields(strategy, svc) ==
    \/ strategy = "direct"
    \/ /\ strategy # "direct"
       /\ ~ svc[strategy].raises
       /\ svc[strategy].items # <<>>
       /\ svc[strategy].items[1].wellformed
       /\ svc[strategy].items[1].channelId # <<>>

\* the lookup of the strategy raises or returns zero items
FailsOrEmpty(strategy, svc) ==
    /\ strategy # "direct"
    /\ \/ svc[strategy].raises
       \/ svc[strategy].items = <<>>
       \/ ~ svc[strategy].items[1].wellformed

\* C2: extract_channel_id tries direct channel ID, custom path, @handle,
\* legacy username, then the free-text search of the whole URL, in this
\* order; it returns the result of the first strategy that yields a non-empty
\* channel ID and issues no lookup after it; a strategy whose lookup raises or
\* returns zero items is skipped; if every strategy raises or returns zero
\* items the result is None; no exception leaves extract_channel_id.
C2_FirstStrategyWins ==
    ret # NotCalled =>
        LET r == ret[1]
            app == Applicable(arg.url)
            hits == {k \in 1..Len(app) : Yields(app[k], arg.svc)}
            last == IF hits = {} THEN Len(app) ELSE SetMin(hits)
            NotDirect(x) == x # "direct"
            tried == SelectSeq(SubSeq(app, 1, last), NotDirect)
        IN  /\ ~ r.result.raised
            /\ Len(r.lookups) = Len(tried)
            /\ \A k \in 1..Len(tried) : r.lookups[k].resolver = tried[k]
            /\ hits # {} =>
                  /\ Truthy(r.result)
                  /\ app[last] # "direct" =>
                        r.result.value = arg.svc[app[last]].items[1].channelId
                  /\ app[last] = "direct" =>
                        /\ SubSeq(r.result.value, 1, 2) = str("UC")
                        /\ IsCapture(ChannelLit \o str("UC"), "word",
                                     rstrip(strip(arg.url), {47}),
                                     SubSeq(r.result.value, 3, Len(r.result.value)))
            /\ (\A k \in 1..Len(app) : FailsOrEmpty(app[k], arg.svc)) =>
                  r.result = None

\* two pattern strategies were tried, the first raised and the second got no
\* items, and the free-text search of the whole URL gave the identifier
C2_Witness ==
    /\ ret # NotCalled
    /\ Len(ret[1].lookups) = 3
    /\ arg.svc[ret[1].lookups[1].resolver] = RespRaises
    /\ arg.svc[ret[1].lookups[2].resolver] = RespNoItems
    /\ ret[1].lookups[3].resolver = "resolve_channel_url"
    /\ ret[1].result = Returned(str("UCw"))

-----------------------------------------------------------------------------
(* get_channel_videos on its own: SpecEnum applies it to every run of at   *)
(* most MaxPages page responses whose last one ends the enumeration.       *)

Token == Returned(str("T"))

PageItemLists ==
    {<<>>,
     <<VideoItem(str("v1")), ItemNotDict, VideoItem(str("v2"))>>,
     <<VideoItem(str("v3"))>>,
     <<ItemNoId, ItemIdNotDict, ItemNoVideoId, VideoItem(<<>>)>>,
     <<VideoItem(str("v2")), VideoItem(str("v1"))>>,
     <<ItemNoVideoId, VideoItem(str("v4"))>>}

PageRaises == [raises |-> TRUE, items |-> <<>>, nextPageToken |-> None]

\* a response with a usable continuation token
MorePages == [raises : {FALSE}, items : PageItemLists, nextPageToken : {Token}]

\* a response that ends the enumeration: the call fails, or there is no
\* (or an empty) continuation token
LastPages ==
    {PageRaises} \cup
    [raises : {FALSE}, items : PageItemLists,
     nextPageToken : {None, Returned(<<>>)}]

\* what the service can answer to the successive page calls of one
\* enumeration: at most n responses, the last one ending it
PageRuns(n) ==
    UNION {{f \in [1..k -> MorePages \cup LastPages] : f[k] \in LastPages} :
             k \in 1..n}

InitEnum ==
    /\ MainInit
    /\ arg \in [build_ok : BOOLEAN, pages : PageRuns(MaxPages)]
    /\ ret = NotCalled

\* the call get_channel_videos(channel_id)
CallGetChannelVideos ==
    /\ ret = NotCalled
    /\ ret' = <<get_channel_videos(arg.build_ok, arg.pages)>>
    /\ UNCHANGED <<arg, mainVars>>

NextEnum == CallGetChannelVideos

SpecEnum == InitEnum /\ [][NextEnum]_vars

\* the item carries a nested, non-empty video ID
WellFormed(item) ==
    item.shape = "dict" /\ ~ item.videoId.none /\ item.videoId.value # <<>>

VideoIdOf(item) == item.videoId.value

\* the video IDs of the well-formed items of pages 1..k, in order
RECURSIVE IdsOfPages(_, _)
IdsOfPages(pages, k) ==
    IF k = 0 THEN <<>>
    ELSE IdsOfPages(pages, k - 1) \o
         [i \in 1..Len(SelectSeq(pages[k].items, WellFormed)) |->
             VideoIdOf(SelectSeq(pages[k].items, WellFormed)[i])]

\* the page call that ends the enumeration: the first that fails or carries
\* no continuation token
StopPage(pages) ==
    SetMin({k \in 1..Len(pages) :
               \/ pages[k].raises
               \/ pages[k].nextPageToken.none
               \/ pages[k].nextPageToken.value = <<>>})

\* C3: get_channel_videos returns the video IDs of the well-formed items of
\* the pages fetched successfully, in page order and item order, stopping at
\* the first page without continuation token or the first failing page call;
\* a failure on page k+1 yields exactly the identifiers of pages 1..k, and no
\* exception is raised.
C3_PartialResult ==
    (ret # NotCalled /\ arg.build_ok) =>
        LET r == ret[1]
            stop == StopPage(arg.pages)
        IN  /\ ~ r.raised
            /\ r.calls = stop
            /\ r.video_ids =
                  IdsOfPages(arg.pages,
                             IF arg.pages[stop].raises THEN stop - 1 ELSE stop)

\* two pages were fetched, the second with a malformed item, and the third
\* call failed: the result is what pages 1 and 2 gave
C3_Witness ==
    /\ ret # NotCalled
    /\ arg.build_ok
    /\ Len(arg.pages) = 3
    /\ arg.pages[3].raises
    /\ arg.pages[1].items = <<VideoItem(str("v3"))>>
    /\ arg.pages[2].items = <<ItemNoVideoId, VideoItem(str("v4"))>>
    /\ ret[1].video_ids = << str("v3"), str("v4") >>
    /\ ret[1].calls = 3

-----------------------------------------------------------------------------
(* save_transcript(..., OutputFormat.SRT) on its own: SpecSrt writes every *)
(* transcript of at most MaxSegments segments whose start and duration are *)
(* whole numbers of milliseconds.                                          *)

StartMillis == {0, 500, 1001, 4350, 61500, 3661001}

Hello == str("hello")

\* a segment as the claim gives it: milliseconds, the duration possibly absent
Segments ==
    [text : {Hello}, start_ms : StartMillis, has_duration : {TRUE},
     duration_ms : {0, 13, 2250}]
    \cup [text : {Hello}, start_ms : StartMillis, has_duration : {FALSE},
          duration_ms : {0}]

\* the transcript entry the program gets for it: seconds, as floats
EntryOf(seg) ==
    [text |-> seg.text, start |-> FloatOfMillis(seg.start_ms),
     has_duration |-> seg.has_duration,
     duration |-> FloatOfMillis(seg.duration_ms)]

InitSrt ==
    /\ MainInit
    /\ arg \in UNION {[1..n -> Segments] : n \in 0..MaxSegments}
    /\ ret = NotCalled

\* the call save_transcript(transcript, output_file, OutputFormat.SRT)
CallSaveTranscriptSrt ==
    /\ ret = NotCalled
    /\ ret' = <<save_transcript_srt([i \in 1..Len(arg) |-> EntryOf(arg[i])])>>
    /\ UNCHANGED <<arg, mainVars>>

NextSrt == CallSaveTranscriptSrt

SpecSrt == InitSrt /\ [][NextSrt]_vars

\* the HH:MM:SS,mmm decomposition of n milliseconds
Decomposition(n) ==
    ZeroPad(DecimalDigits(n \div 3600000), 2) \o str(":")
    \o ZeroPad(DecimalDigits((n % 3600000) \div 60000), 2) \o str(":")
    \o ZeroPad(DecimalDigits((n % 60000) \div 1000), 2) \o str(",")
    \o ZeroPad(DecimalDigits(n % 1000), 3)

\* C8: for segments whose start and duration are whole milliseconds, the
\* k-th segment is written as cue number k, with the HH:MM:SS,mmm
\* decomposition of start as its start timestamp and that of start +
\* duration (0 when absent) as its end timestamp.
C8_SrtTimestamps ==
    ret # NotCalled =>
        /\ Len(ret[1]) = Len(arg)
        /\ \A k \in 1..Len(arg) :
              /\ ret[1][k][1] = DecimalDigits(k)
              /\ ret[1][k][2] =
                    Decomposition(arg[k].start_ms) \o Arrow
                    \o Decomposition(arg[k].start_ms + arg[k].duration_ms)
              /\ ret[1][k][3] = arg[k].text

-----------------------------------------------------------------------------
(* The menu loop and the three workflows.                                  *)

\* the code points of the digit zero of every script: the decimal digits
\* int() reads are the ten code points from each of them on
DecimalZeros ==
    {48, 1632, 1776, 1984, 2406, 2534, 2662, 2790, 2918, 3046,
     3174, 3302, 3430, 3558, 3664, 3792, 3872, 4160, 4240, 6112,
     6160, 6470, 6608, 6784, 6800, 6992, 7088, 7232, 7248, 42528,
     43216, 43264, 43472, 43504, 43600, 44016, 65296, 66720, 68912, 69734,
     69872, 69942, 70096, 70384, 70736, 70864, 71248, 71360, 71472, 71904,
     72016, 72784, 73040, 73120, 92768, 92864, 93008, 120782, 120792, 120802,
     120812, 120822, 123200, 123632, 125264, 130032}


DigitValue(c) == c - (CHOOSE z \in DecimalZeros : z <= c /\ c <= z + 9)

\* the whitespace int() removes around the number: that of str.strip()
\* without the separators U+001C to U+001F
IntWhitespace == Whitespace \ 28..31

\* sys.get_int_max_str_digits(): int() refuses a text of more digits
MaxStrDigits == 4300

\* int(text). A Python int has no bound: the value is given by its sign and
\* its decimal digits, highest first, without leading zeros (<<0>> for
\* zero). The text without surrounding whitespace is an optional sign and
\* decimal digits, with single underscores allowed between digits; anything
\* else raises ValueError (ok = FALSE).
py_int(text) ==
    LET t == rstrip(lstrip(text, IntWhitespace), IntWhitespace)
        signed == t # <<>> /\ t[1] \in {43, 45}
        ds == IF signed THEN Tail(t) ELSE t
        wellformed ==
            /\ ds # <<>>
            /\ \A i \in 1..Len(ds) : ds[i] = 95 \/ \E z \in DecimalZeros : z <= ds[i] /\ ds[i] <= z + 9
            /\ ds[1] # 95
            /\ ds[Len(ds)] # 95
            /\ \A i \in 1..(Len(ds) - 1) : ~ (ds[i] = 95 /\ ds[i + 1] = 95)
        digits == SelectSeq(ds, LAMBDA c : c # 95)
        values == [i \in 1..Len(digits) |-> DigitValue(digits[i])]
        significant == lstrip(values, {0})
    IN  IF ~ wellformed \/ Len(digits) > MaxStrDigits
        THEN [ok |-> FALSE, negative |-> FALSE, digits |-> <<>>]
        ELSE [ok |-> TRUE,
              negative |-> signed /\ t[1] = 45 /\ significant # <<>>,
              digits |-> IF significant = <<>> THEN <<0>> ELSE significant]

\* the int n as a number of the model, for an n of at most nine digits
RECURSIVE DigitsValue(_)
DigitsValue(ds) ==
    IF ds = <<>> THEN 0
    ELSE 10 * DigitsValue(SubSeq(ds, 1, Len(ds) - 1)) + ds[Len(ds)]

int_value(n) == IF n.negative THEN 0 - DigitsValue(n.digits) ELSE DigitsValue(n.digits)

\* lo <= n <= hi for an int n and bounds lo, hi of at most nine digits
int_between(lo, n, hi) ==
    /\ Len(n.digits) <= 9
    /\ lo <= int_value(n)
    /\ int_value(n) <= hi

\* needle in hay
Contains(needle, hay) ==
    \E p \in 1..(Len(hay) - Len(needle) + 1) :
        SubSeq(hay, p, p + Len(needle) - 1) = needle

NoTranscriptsText == str("No transcripts were found")

\* the mutant: every exception counts as failed
channel_error_class_all_failed(error_message) == "failed"

\* lines 348-354: the counter an exception of the channel loop goes to
channel_error_class(error_message) ==
    IF Contains(NoTranscriptsText, error_message) THEN "no_captions" ELSE "failed"

\* lines 462-464: the counter an exception of the file loop goes to
multiple_error_class(error_message) == "failed"

\* list(OutputFormat)[choice - 1].value
output_format_of(n) ==
    CASE n = 1 -> "json" [] n = 2 -> "txt" [] n = 3 -> "srt"

Event(type, id) == [type |-> type, id |-> id]

Transcripts == str("transcripts")
MultipleVideos == str("multiple_videos")

\* Path('transcripts') / sub
output_dir_of(sub) == [root |-> Transcripts, sub |-> sub]

\* the mutant: a failed write removes what it had written
save_transcript_cleanup(fs, output_file, format, outcome) ==
    LET path == [dir |-> output_file.dir, stem |-> output_file.stem, ext |-> format]
    IN  CASE outcome = "ok" ->
               [files |-> (path :> "complete") @@ fs, raised |-> FALSE]
          [] OTHER ->
               [files |-> [f \in DOMAIN fs \ {path} |-> fs[f]], raised |-> TRUE]

\* save_transcript(transcript, output_file, format) as the file system sees
\* it: the file output_file.<format> is opened for writing and written; the
\* open can fail ("fail_open": nothing changes) and a write can fail
\* ("fail_mid": the file is there, cut short); both raise.
save_transcript(fs, output_file, format, outcome) ==
    LET path == [dir |-> output_file.dir, stem |-> output_file.stem, ext |-> format]
    IN  CASE outcome = "ok" ->
               [files |-> (path :> "complete") @@ fs, raised |-> FALSE]
          [] outcome = "fail_open" ->
               [files |-> fs, raised |-> TRUE]
          [] outcome = "fail_mid" ->
               [files |-> (path :> "partial") @@ fs, raised |-> TRUE]

\* the mutant: the exception leaves the workflow and ends the process
workflow_uncaught(message) ==
    [pc |-> "crashed", console |-> "traceback", exit_status |-> 1]

\* the outermost except of a workflow (lines 365-366, 402-403, 474-475):
\* the message is printed and the workflow returns to the menu
workflow_except(message) ==
    [pc |-> "menu", console |-> message, exit_status |-> -1]

\* the mutant: the single-video workflow downloads before it asks
workflow_next_no_prompt(at) ==
    CASE at = "input_channel_url" -> "chan_resolve"
      [] at = "chan_resolve"      -> "chan_format"
      [] at = "chan_format"       -> "chan_enum"
      [] at = "chan_enum"         -> "chan_mkdir"
      [] at = "chan_mkdir"        -> "chan_loop"
      [] at = "input_video_url"   -> "single_download"
      [] at = "single_format"     -> "single_download"
      [] at = "input_file_path"   -> "multi_format"
      [] at = "multi_format"      -> "multi_open"
      [] at = "multi_open"        -> "multi_loop"

\* the order of the steps of the three workflows: what follows the step at
workflow_next(at) ==
    CASE at = "input_channel_url" -> "chan_resolve"
      [] at = "chan_resolve"      -> "chan_format"
      [] at = "chan_format"       -> "chan_enum"
      [] at = "chan_enum"         -> "chan_mkdir"
      [] at = "chan_mkdir"        -> "chan_loop"
      [] at = "input_video_url"   -> "single_format"
      [] at = "single_format"     -> "single_download"
      [] at = "input_file_path"   -> "multi_format"
      [] at = "multi_format"      -> "multi_open"
      [] at = "multi_open"        -> "multi_loop"

-----------------------------------------------------------------------------
(* What the user types, what the services answer, what the file holds.     *)

MenuEntries ==
    {str("1"), str("2"), str("3"), str("4"), str("0"), str("5"), str("x"), <<>>, str(" 3 "), str("-1"),
     str("0_1"), <<160>> \o <<1778>>, str("4_"), <<28>> \o str("4"),
     <<12288>> \o <<1635>>, str("99999999999")}

FormatEntries ==
    {str("1"), str("2"), str("3"), str("0"), str("4"), str("srt"), str("+2"),
     str("0_3"), <<2535>> \o <<133>>, str("_1")}

MainChannelUrls ==
    {ChannelLit \o str("UC") \o <<233>> \o str("-1"),
     <<11>> \o CustomLit \o str("cc/"),
     HandleLit \o str("hh"),
     str("zz")}

MainVideoUrls == {WatchLit \o str("a1"), ShortLit \o str("b2"), str("a1")}

PageA == [raises |-> FALSE,
          items |-> <<VideoItem(str("v1")), ItemNotDict, VideoItem(str("v2"))>>,
          nextPageToken |-> Token]
PageB == [raises |-> FALSE, items |-> <<VideoItem(str("v3"))>>, nextPageToken |-> None]
PageMalformed == [raises |-> FALSE,
                  items |-> <<ItemNoId, ItemIdNotDict, ItemNoVideoId>>,
                  nextPageToken |-> Returned(<<>>)]

MainPageRuns ==
    {<<PageRaises>>, <<[raises |-> FALSE, items |-> <<>>, nextPageToken |-> None]>>,
     <<PageB>>, <<PageA, PageB>>,
     <<PageA, PageRaises>>, <<PageA, PageMalformed>>}

\* what YouTubeTranscriptApi.get_transcript does: it returns the transcript,
\* or raises with a message
FetchOutcomes ==
    {[ok |-> TRUE, message |-> <<>>],
     [ok |-> FALSE, message |-> str("x: No transcripts were found for ['en']")],
     [ok |-> FALSE, message |-> str("Subtitles are disabled for this video")]}

WriteOutcomes == {"ok", "fail_open", "fail_mid"}

\* str(e) of the exception a failed write raises
WriteErrorText == str("[Errno 28] No space left on device")

\* the lines of the file of URLs, as iterating the file gives them
MainFiles ==
    {<<>>,
     <<<<10>>, str("  ") \o <<10>>>>,
     <<WatchLit \o str("a1") \o <<10>>, <<10>>, str("x y") \o <<10>>>>,
     <<EmbedLit \o str("c3") \o <<10>>, <<11>> \o <<160>> \o <<10>>, str("b2") \o <<10>>,
       <<28>> \o VLit \o str("c3") \o <<133>>>>,
     <<ShortLit \o str("a1") \o <<10>>, str(" ") \o WatchLit \o str("a1")>>}

-----------------------------------------------------------------------------
(* main() and get_user_choice()                                            *)

Init ==
    /\ MainInit
    /\ arg = <<>>
    /\ ret = NotCalled

harness == <<arg, ret>>

\* the locals of a workflow that has returned are gone: nothing done,
\* nothing counted
Fresh ==
    /\ channel_url' = <<>>
    /\ video_url' = <<>>
    /\ channel_id' = <<>>
    /\ output_format' = "none"
    /\ video_ids' = <<>>
    /\ video_urls' = <<>>
    /\ file_path' = <<>>
    /\ file_lines' = <<>>
    /\ idx' = 0
    /\ successful' = 0
    /\ failed' = 0
    /\ no_captions' = 0
    /\ dirs' = {}
    /\ files' = <<>>
    /\ events' = <<>>

workflowVars == <<channel_url, video_url, channel_id, output_format, video_ids,
                  video_urls, file_path, file_lines, idx, successful, failed, no_captions,
                  dirs, files, events>>

\* lines 504-507 and 520-522: the workflow before, if any, has returned; the
\* menu is shown and a line is read; a number from 1 to 4 is the choice,
\* anything else is asked again; 4 exits with 0
GetUserChoice ==
    /\ pc = "menu"
    /\ \E line \in MenuEntries :
         LET n == py_int(line)
         IN  /\ stdin_line' = line
             /\ IF n.ok /\ int_between(1, n, 4)
                THEN /\ choice' = int_value(n)
                     /\ console' = IF int_value(n) = 4 THEN "thank_you" ELSE "prompt"
                     /\ pc' = CASE int_value(n) = 1 -> "input_channel_url"
                                 [] int_value(n) = 2 -> "input_video_url"
                                 [] int_value(n) = 3 -> "input_file_path"
                                 [] int_value(n) = 4 -> "exited"
                     /\ exit_status' = IF int_value(n) = 4 THEN 0 ELSE exit_status
                ELSE /\ console' = IF n.ok THEN "enter_1_to_4" ELSE "enter_valid_number"
                     /\ UNCHANGED <<choice, pc, exit_status>>
    /\ Fresh
    /\ UNCHANGED harness

\* get_output_format(), lines 33-40: a number from 1 to 3 selects the
\* format, anything else is asked again
GetOutputFormat ==
    /\ pc \in {"chan_format", "single_format", "multi_format"}
    /\ \E line \in FormatEntries :
         LET n == py_int(line)
         IN  /\ stdin_line' = line
             /\ IF n.ok /\ int_between(1, n, 3)
                THEN /\ output_format' = output_format_of(int_value(n))
                     /\ events' = Append(events, Event("format_returned", <<>>))
                     /\ console' = "selected_format"
                     /\ pc' = workflow_next(pc)
                ELSE /\ console' = IF n.ok THEN "enter_1_to_3" ELSE "enter_valid_number"
                     /\ UNCHANGED <<output_format, events, pc>>
    /\ UNCHANGED <<choice, channel_url, video_url, channel_id, video_ids,
                   video_urls, file_path, file_lines, idx, successful, failed, no_captions,
                   dirs, files, exit_status, harness>>

-----------------------------------------------------------------------------
(* download_channel_transcripts                                            *)

Repeat(n, e) == [i \in 1..n |-> e]

\* line 509: the URL is read; the workflow starts
InputChannelUrl ==
    /\ pc = "input_channel_url"
    /\ \E line \in MainChannelUrls :
         /\ stdin_line' = line
         /\ channel_url' = line
    /\ console' = "processing_channel"
    /\ pc' = workflow_next(pc)
    /\ UNCHANGED <<choice, video_url, channel_id, output_format, video_ids,
                   video_urls, file_path, file_lines, idx, successful, failed, no_captions,
                   dirs, files, events, exit_status, harness>>

\* lines 304-313: the channel is resolved; without an identifier the
\* workflow ends with a message, with one get_output_format lists the formats
\* (lines 29-31) and asks
ChanResolve ==
    /\ pc = "chan_resolve"
    /\ \E svc \in LookupServices :
         LET r == extract_channel_id(channel_url, svc)
             h == workflow_except("error_processing_channel")
         IN  /\ events' = events \o
                    [i \in 1..Len(r.lookups) |-> Event("lookup", r.lookups[i].q)]
             /\ IF r.result.raised
                THEN /\ pc' = h.pc
                     /\ console' = h.console
                     /\ exit_status' = h.exit_status
                     /\ UNCHANGED channel_id
                ELSE IF ~ Truthy(r.result)
                THEN /\ pc' = "menu"
                     /\ console' = "could_not_resolve"
                     /\ UNCHANGED <<channel_id, exit_status>>
                ELSE /\ channel_id' = r.result.value
                     /\ pc' = workflow_next(pc)
                     /\ console' = "available_formats"
                     /\ UNCHANGED exit_status
    /\ UNCHANGED <<choice, channel_url, video_url, output_format, video_ids,
                   video_urls, file_path, file_lines, idx, successful, failed, no_captions,
                   dirs, files, stdin_line, harness>>

\* lines 316-325: the videos are enumerated; an exception, or no video,
\* ends the workflow with a message
ChanEnumerate ==
    /\ pc = "chan_enum"
    /\ \E build_ok \in BOOLEAN, pages \in MainPageRuns :
         LET r == get_channel_videos(build_ok, pages)
         IN  /\ events' = events \o Repeat(r.calls, Event("search_page", <<>>))
             /\ IF r.raised
                THEN /\ pc' = "menu"
                     /\ console' = "error_retrieving_videos"
                     /\ UNCHANGED video_ids
                ELSE IF r.video_ids = <<>>
                THEN /\ pc' = "menu"
                     /\ console' = "no_videos_found"
                     /\ UNCHANGED video_ids
                ELSE /\ video_ids' = r.video_ids
                     /\ pc' = workflow_next(pc)
                     /\ console' = "found_videos"
    /\ UNCHANGED <<choice, channel_url, video_url, channel_id, output_format,
                   video_urls, file_path, file_lines, idx, successful, failed, no_captions,
                   dirs, files, exit_status, stdin_line, harness>>

\* the mutant: the directory is named after the URL the user typed
channel_output_dir_from_url(id, url) == output_dir_of(url)

\* line 328: Path('transcripts') / channel_id
channel_output_dir(id, url) == output_dir_of(id)

\* lines 327-334: the output directory is created and the counters start at 0
ChanMkdir ==
    /\ pc = "chan_mkdir"
    /\ \E ok \in BOOLEAN :
         LET h == workflow_except("error_processing_channel")
             output_dir == channel_output_dir(channel_id, channel_url)
         IN  IF ok
             THEN /\ dirs' = dirs \cup {output_dir}
                  /\ events' = Append(events, Event("mkdir", output_dir.sub))
                  /\ idx' = 1
                  /\ successful' = 0
                  /\ failed' = 0
                  /\ no_captions' = 0
                  /\ pc' = workflow_next(pc)
                  /\ console' = "found_videos"
                  /\ UNCHANGED exit_status
             ELSE /\ pc' = h.pc
                  /\ console' = h.console
                  /\ exit_status' = h.exit_status
                  /\ UNCHANGED <<dirs, events, idx, successful, failed,
                                 no_captions>>
    /\ UNCHANGED <<choice, channel_url, video_url, channel_id, output_format,
                   video_ids, video_urls, file_path, file_lines, files, stdin_line, harness>>

\* the states of the files an interrupt can leave a write in: not opened,
\* opened and cut short, or as the write leaves them
interrupted_write(output_file, write) ==
    {files} \cup
    {save_transcript(files, output_file, output_format, o).files :
        o \in IF write = "fail_open" THEN {"fail_open"} ELSE {"fail_mid", write}}

\* lines 336-355, one turn of the loop for video_ids[idx], given what
\* get_transcript and the write do: the events of the turn in order, the
\* files after it and the counter it adds to; an exception is counted by its
\* message
channel_turn(fetch, write) ==
    LET video_id == video_ids[idx]
        output_file == [dir |-> channel_output_dir(channel_id, channel_url),
                        stem |-> video_id]
        saved == save_transcript(files, output_file, output_format, write)
        error_message == IF fetch.ok THEN WriteErrorText ELSE fetch.message
        class == IF fetch.ok /\ ~ saved.raised THEN "successful"
                 ELSE channel_error_class(error_message)
    IN  [log |-> <<Event("fetch", video_id)>>
                    \o (IF fetch.ok THEN <<Event("write", video_id)>> ELSE <<>>)
                    \o (IF class = "successful" THEN <<Event("saved", video_id)>>
                        ELSE <<Event("error", error_message)>>),
         files |-> IF fetch.ok THEN saved.files ELSE files,
         written |-> interrupted_write(output_file, write),
         dirs |-> dirs,
         class |-> class]

\* lines 336-355: one turn of the loop: the transcript of video_ids[idx] is
\* fetched and saved and the turn is counted
ChanProcessVideo ==
    /\ pc = "chan_loop"
    /\ idx <= Len(video_ids)
    /\ \E fetch \in FetchOutcomes, write \in WriteOutcomes :
         \E turn \in {channel_turn(fetch, write)} :
             /\ events' = events \o turn.log
             /\ files' = turn.files
             /\ successful' = successful + (IF turn.class = "successful" THEN 1 ELSE 0)
             /\ no_captions' = no_captions + (IF turn.class = "no_captions" THEN 1 ELSE 0)
             /\ failed' = failed + (IF turn.class = "failed" THEN 1 ELSE 0)
             /\ console' = CASE turn.class = "successful" -> "saved_transcript"
                              [] turn.class = "no_captions" -> "no_captions_available"
                              [] turn.class = "failed" -> "error_downloading"
    /\ idx' = idx + 1
    /\ UNCHANGED <<pc, choice, channel_url, video_url, channel_id, output_format,
                   video_ids, video_urls, file_path, file_lines, dirs, exit_status,
                   stdin_line, harness>>

\* lines 357-363: the loop is over; the summary is printed and the workflow
\* returns
ChanSummary ==
    /\ pc = "chan_loop"
    /\ idx > Len(video_ids)
    /\ console' = "channel_summary"
    /\ pc' = "menu"
    /\ UNCHANGED <<choice, workflowVars, exit_status, stdin_line, harness>>

-----------------------------------------------------------------------------
(* download_single_video_transcript                                        *)

\* lines 513 and 376-379: the URL is read; the workflow starts and
\* get_output_format lists the formats (lines 29-31) and asks
InputVideoUrl ==
    /\ pc = "input_video_url"
    /\ \E line \in MainVideoUrls :
         /\ stdin_line' = line
         /\ video_url' = line
    /\ console' = "available_formats"
    /\ pc' = workflow_next(pc)
    /\ UNCHANGED <<choice, channel_url, channel_id, output_format, video_ids,
                   video_urls, file_path, file_lines, idx, successful, failed, no_captions,
                   dirs, files, events, exit_status, harness>>

\* lines 382-400, given what get_transcript, mkdir and the write do: the
\* events in order, the directories and files after them and the last
\* message; any exception is printed
single_turn(fetch, mkdir_ok, write) ==
    LET video_id == extract_video_id(video_url)
        output_dir == output_dir_of(str("single_videos"))
        output_file == [dir |-> output_dir, stem |-> video_id]
        saved == save_transcript(files, output_file, output_format, write)
    IN  IF ~ fetch.ok
        THEN [log |-> <<Event("fetch", video_id), Event("error", fetch.message)>>,
              files |-> files, written |-> {files}, dirs |-> dirs,
              class |-> "failed"]
        ELSE IF ~ mkdir_ok
        THEN [log |-> <<Event("fetch", video_id), Event("error", WriteErrorText)>>,
              files |-> files, written |-> {files}, dirs |-> dirs,
              class |-> "failed"]
        ELSE [log |-> <<Event("fetch", video_id), Event("mkdir", output_dir.sub),
                        Event("write", video_id),
                        IF saved.raised THEN Event("error", WriteErrorText)
                        ELSE Event("saved", video_id)>>,
              files |-> saved.files,
              written |-> interrupted_write(output_file, write),
              dirs |-> dirs \cup {output_dir},
              class |-> IF saved.raised THEN "failed" ELSE "successful"]

\* lines 382-400: the identifier is extracted, the transcript fetched, the
\* directory created and the file written
SingleDownload ==
    /\ pc = "single_download"
    /\ \E fetch \in FetchOutcomes, mkdir_ok \in BOOLEAN, write \in WriteOutcomes :
         \E turn \in {single_turn(fetch, mkdir_ok, write)} :
             /\ events' = events \o turn.log
             /\ dirs' = turn.dirs
             /\ files' = turn.files
             /\ console' = IF turn.class = "successful" THEN "saved_transcript"
                           ELSE "error_downloading_transcript"
    /\ pc' = "menu"
    /\ UNCHANGED <<choice, channel_url, video_url, channel_id, output_format,
                   video_ids, video_urls, file_path, file_lines, idx, successful, failed,
                   no_captions, exit_status, stdin_line, harness>>

-----------------------------------------------------------------------------
(* download_multiple_video_transcripts                                     *)

\* line 431: the lines that are not blank, stripped
RECURSIVE non_blank_lines(_)
non_blank_lines(lines) ==
    IF lines = <<>> THEN <<>>
    ELSE (IF strip(Head(lines)) # <<>> THEN <<strip(Head(lines))>> ELSE <<>>)
         \o non_blank_lines(Tail(lines))

\* lines 517 and 413-416: the path is read; a path that does not exist ends
\* the workflow with a message
InputFilePath ==
    /\ pc = "input_file_path"
    /\ \E line \in {str("urls.txt"), str("nofile")}, exists \in BOOLEAN :
         /\ stdin_line' = line
         /\ file_path' = line
         /\ IF exists
            THEN /\ pc' = workflow_next(pc)
                 /\ console' = "available_formats"
            ELSE /\ pc' = "menu"
                 /\ console' = "file_does_not_exist"
    /\ UNCHANGED <<choice, channel_url, video_url, channel_id, output_format,
                   video_ids, video_urls, file_lines, idx, successful, failed,
                   no_captions, dirs, files, events, exit_status, harness>>

\* lines 422-438: the output directory is created, the file read; an
\* exception of either ends the workflow with a message, and so does a file
\* without URLs
MultiOpen ==
    /\ pc = "multi_open"
    /\ \E mkdir_ok \in BOOLEAN, readable \in BOOLEAN, lines \in MainFiles :
         LET h == workflow_except("error_reading_file")
             output_dir == output_dir_of(MultipleVideos)
         IN  IF ~ mkdir_ok
             THEN /\ pc' = h.pc
                  /\ console' = h.console
                  /\ exit_status' = h.exit_status
                  /\ UNCHANGED <<dirs, events, file_lines, video_urls, idx>>
             ELSE /\ dirs' = dirs \cup {output_dir}
                  /\ events' = Append(events, Event("mkdir", output_dir.sub))
                  /\ IF ~ readable
                     THEN /\ pc' = h.pc
                          /\ console' = h.console
                          /\ exit_status' = h.exit_status
                          /\ UNCHANGED <<file_lines, video_urls, idx>>
                     ELSE /\ file_lines' = lines
                          /\ video_urls' = non_blank_lines(lines)
                          /\ idx' = 1
                          /\ UNCHANGED exit_status
                          /\ IF non_blank_lines(lines) = <<>>
                             THEN pc' = "menu" /\ console' = "no_video_urls"
                             ELSE pc' = workflow_next(pc) /\ console' = "found_urls"
    /\ UNCHANGED <<choice, channel_url, video_url, channel_id, output_format,
                   video_ids, successful, failed, no_captions, files, stdin_line,
                   file_path, harness>>

\* lines 440-465, one turn of the loop for video_urls[idx], given what
\* get_transcript and the write do: the events of the turn in order, the
\* files after it and the counter it adds to; any exception counts as failed
multiple_turn(fetch, write) ==
    LET url == video_urls[idx]
        video_id == extract_video_id(url)
        output_file == [dir |-> output_dir_of(MultipleVideos), stem |-> video_id]
        saved == save_transcript(files, output_file, output_format, write)
        error_message == IF fetch.ok THEN WriteErrorText ELSE fetch.message
        class == IF video_id = <<>> THEN "failed"
                 ELSE IF fetch.ok /\ ~ saved.raised THEN "successful"
                 ELSE multiple_error_class(error_message)
    IN  [log |-> <<Event("line", url)>>
                    \o (IF video_id = <<>> THEN <<>>
                        ELSE <<Event("fetch", video_id)>>
                             \o (IF fetch.ok THEN <<Event("write", video_id)>> ELSE <<>>)
                             \o (IF class = "successful"
                                 THEN <<Event("saved", video_id)>>
                                 ELSE <<Event("error", error_message)>>)),
         files |-> IF video_id # <<>> /\ fetch.ok THEN saved.files ELSE files,
         written |-> IF video_id # <<>> /\ fetch.ok
                     THEN interrupted_write(output_file, write) ELSE {files},
         dirs |-> dirs,
         class |-> class]

\* lines 440-465: one turn of the loop: the identifier of video_urls[idx] is
\* extracted, its transcript fetched and saved and the turn is counted
MultiProcessLine ==
    /\ pc = "multi_loop"
    /\ idx <= Len(video_urls)
    /\ \E fetch \in FetchOutcomes, write \in WriteOutcomes :
         \E turn \in {multiple_turn(fetch, write)} :
             /\ events' = events \o turn.log
             /\ files' = turn.files
             /\ successful' = successful + (IF turn.class = "successful" THEN 1 ELSE 0)
             /\ failed' = failed + (IF turn.class = "failed" THEN 1 ELSE 0)
             /\ console' = IF turn.class = "successful" THEN "saved_transcript"
                           ELSE "error_processing_video"
    /\ idx' = idx + 1
    /\ UNCHANGED <<pc, choice, channel_url, video_url, channel_id, output_format,
                   video_ids, video_urls, file_path, file_lines, no_captions, dirs,
                   exit_status, stdin_line, harness>>

\* lines 467-472: the loop is over; the summary is printed and the workflow
\* returns
MultiSummary ==
    /\ pc = "multi_loop"
    /\ idx > Len(video_urls)
    /\ console' = "multiple_summary"
    /\ pc' = "menu"
    /\ UNCHANGED <<choice, workflowVars, exit_status, stdin_line, harness>>

-----------------------------------------------------------------------------

WorkflowSteps ==
    {"input_channel_url", "chan_resolve", "chan_format", "chan_enum", "chan_mkdir",
     "chan_loop", "input_video_url", "single_format", "single_download",
     "input_file_path", "multi_format", "multi_open", "multi_loop"}

MainPrompts == {"menu", "input_channel_url", "input_video_url", "input_file_path"}

FormatPrompts == {"chan_format", "single_format", "multi_format"}

\* input() raises in place of returning a line: EOFError at the end of the
\* input, KeyboardInterrupt at an interrupt. main() catches neither, and the
\* process ends with a traceback (status 1; 130 is how a shell reports the
\* end by SIGINT). Inside get_output_format the EOFError, an Exception, is
\* caught by the except of the workflow, the KeyboardInterrupt is not.
InputRaises ==
    /\ pc \in MainPrompts \cup FormatPrompts
    /\ \E exception \in {"EOFError", "KeyboardInterrupt"} :
         IF pc \in FormatPrompts /\ exception = "EOFError"
         THEN LET h == workflow_except(
                          CASE pc = "chan_format"   -> "error_processing_channel"
                            [] pc = "single_format" -> "error_processing_video"
                            [] pc = "multi_format"  -> "error_reading_file")
              IN  /\ pc' = h.pc
                  /\ console' = h.console
                  /\ exit_status' = h.exit_status
         ELSE /\ pc' = "crashed"
              /\ console' = IF exception = "EOFError" THEN "traceback_EOFError"
                            ELSE "traceback_KeyboardInterrupt"
              /\ exit_status' = IF exception = "EOFError" THEN 1 ELSE 130
    /\ UNCHANGED <<choice, workflowVars, stdin_line, harness>>

\* the states the step at pc can be cut in: the events logged, the
\* directories and the files
interrupted_steps ==
    LET Step(log, made) ==
           [log |-> log, files |-> files, written |-> {files}, dirs |-> made,
            class |-> "none"]
        steps ==
           CASE pc = "chan_resolve" ->
                  {LET r == extract_channel_id(channel_url, svc)
                   IN  Step([i \in 1..Len(r.lookups) |->
                                Event("lookup", r.lookups[i].q)], dirs) :
                     svc \in LookupServices}
             [] pc = "chan_enum" ->
                  {Step(Repeat(get_channel_videos(build_ok, pages).calls,
                               Event("search_page", <<>>)), dirs) :
                     build_ok \in BOOLEAN, pages \in MainPageRuns}
             [] pc = "chan_mkdir" ->
                  {LET output_dir == channel_output_dir(channel_id, channel_url)
                   IN  IF ok THEN Step(<<Event("mkdir", output_dir.sub)>>,
                                       dirs \cup {output_dir})
                       ELSE Step(<<>>, dirs) : ok \in BOOLEAN}
             [] pc = "chan_loop" ->
                  IF idx > Len(video_ids) THEN {Step(<<>>, dirs)}
                  ELSE {channel_turn(fetch, write) :
                          fetch \in FetchOutcomes, write \in WriteOutcomes}
             [] pc = "single_download" ->
                  {single_turn(fetch, mkdir_ok, write) :
                     fetch \in FetchOutcomes, mkdir_ok \in BOOLEAN,
                     write \in WriteOutcomes}
             [] pc = "multi_open" ->
                  {LET output_dir == output_dir_of(MultipleVideos)
                   IN  IF ok THEN Step(<<Event("mkdir", output_dir.sub)>>,
                                       dirs \cup {output_dir})
                       ELSE Step(<<>>, dirs) : ok \in BOOLEAN}
             [] pc = "multi_loop" ->
                  IF idx > Len(video_urls) THEN {Step(<<>>, dirs)}
                  ELSE {multiple_turn(fetch, write) :
                          fetch \in FetchOutcomes, write \in WriteOutcomes}
        DirsAt(step, n) ==
           IF \E i \in 1..n : step.log[i].type = "mkdir" THEN {step.dirs}
           ELSE IF n < Len(step.log) /\ step.log[n + 1].type = "mkdir"
           THEN {dirs, step.dirs}
           ELSE {dirs}
        FilesAt(step, n) ==
           IF \E i \in 1..(n - 1) : step.log[i].type = "write" THEN {step.files}
           ELSE IF n >= 1 /\ step.log[n].type = "write" THEN step.written
           ELSE {files}
    IN  UNION {UNION {{[events |-> events \o SubSeq(step.log, 1, n),
                        dirs |-> d, files |-> f] :
                          d \in DirsAt(step, n), f \in FilesAt(step, n)} :
                      n \in 0..Len(step.log)} :
               step \in steps}

\* An interrupt while a workflow computes, looks up, fetches, creates a
\* directory or writes: every except of the program names Exception, which
\* KeyboardInterrupt is not, so it passes the handlers of the loop, of the
\* workflow and of main() and ends the process as at a prompt. The step is
\* cut where the interrupt arrives: before its first call, inside a call
\* (the call is logged, or the directory or file is half made, and nothing
\* follows) or past any of its events; what the step assigns and counts at
\* its end (channel_id, video_ids, the counters and the index) stays as it
\* was. At a prompt the interrupt can also arrive when input() has returned
\* the line: at the menu before get_user_choice returns (lines 496-497, the
\* choice of main stays as it was) or after it (lines 508-522, the choice is
\* assigned; after the entry 4 neither the farewell nor sys.exit(0) takes
\* the process to its end), in get_output_format before it returns (lines
\* 36-37), in main before the line is assigned (lines 509, 513, 517).
KeyboardInterrupt ==
    /\ \/ /\ pc \in WorkflowSteps \ (MainPrompts \cup FormatPrompts)
          /\ \E cut \in interrupted_steps :
               /\ events' = cut.events
               /\ dirs' = cut.dirs
               /\ files' = cut.files
          /\ UNCHANGED <<choice, channel_url, video_url, channel_id, output_format,
                         video_ids, video_urls, file_path, file_lines, idx, successful,
                         failed, no_captions, stdin_line, harness>>
       \/ /\ pc = "menu"
          /\ \E line \in MenuEntries :
               LET n == py_int(line)
               IN  /\ stdin_line' = line
                   /\ choice' \in {choice} \cup
                         (IF n.ok /\ int_between(1, n, 4) THEN {int_value(n)} ELSE {})
          /\ Fresh
          /\ UNCHANGED harness
       \/ /\ pc \in (MainPrompts \cup FormatPrompts) \ {"menu"}
          /\ stdin_line' \in CASE pc \in FormatPrompts        -> FormatEntries
                               [] pc = "input_channel_url" -> MainChannelUrls
                               [] pc = "input_video_url"   -> MainVideoUrls
                               [] pc = "input_file_path"   ->
                                    {str("urls.txt"), str("nofile")}
          /\ UNCHANGED <<choice, workflowVars, harness>>
    /\ pc' = "crashed"
    /\ console' = "traceback_KeyboardInterrupt"
    /\ exit_status' = 130

Next ==
    \/ GetUserChoice
    \/ InputRaises
    \/ KeyboardInterrupt
    \/ GetOutputFormat
    \/ InputChannelUrl
    \/ ChanResolve
    \/ ChanEnumerate
    \/ ChanMkdir
    \/ ChanProcessVideo
    \/ ChanSummary
    \/ InputVideoUrl
    \/ SingleDownload
    \/ InputFilePath
    \/ MultiOpen
    \/ MultiProcessLine
    \/ MultiSummary

Spec == Init /\ [][Next]_vars

-----------------------------------------------------------------------------
(* The workflows: what the log of a workflow says.                         *)

EventsOfType(types) == SelectSeq(events, LAMBDA e : e.type \in types)

IdsOf(es) == [i \in 1..Len(es) |-> es[i].id]

NoTranscriptsErrors ==
    SelectSeq(events, LAMBDA e : e.type = "error" /\ Contains(NoTranscriptsText, e.id))

OtherErrors ==
    SelectSeq(events, LAMBDA e : e.type = "error" /\ ~ Contains(NoTranscriptsText, e.id))

FormatReturnedBefore(i) == \E j \in 1..(i - 1) : events[j].type = "format_returned"

InChannelLoop == choice = 1 /\ (pc = "chan_loop" \/ console = "channel_summary")

InFileLoop == choice = 3 /\ (pc = "multi_loop" \/ console = "multiple_summary")

\* C1: in the channel workflow the videos are fetched once each in the order
\* enumerated; a failure whose message contains "No transcripts were found"
\* counts as no_captions only, any other failure as failed; at the summary
\* successful + no_captions + failed is the number of videos enumerated.
\* Wherever the workflow is, cut by an interrupt included, the fetches issued
\* are the first videos of the list in order and nothing is counted that has
\* not happened.
C1_ChannelTally ==
    /\ InChannelLoop =>
          /\ IdsOf(EventsOfType({"fetch"})) = SubSeq(video_ids, 1, idx - 1)
          /\ successful = Len(EventsOfType({"saved"}))
          /\ no_captions = Len(NoTranscriptsErrors)
          /\ failed = Len(OtherErrors)
          /\ successful + no_captions + failed = idx - 1
          /\ console = "channel_summary" =>
                /\ idx - 1 = Len(video_ids)
                /\ successful + no_captions + failed = Len(video_ids)
    /\ choice = 1 =>
          /\ Len(EventsOfType({"fetch"})) <= Len(video_ids)
          /\ IdsOf(EventsOfType({"fetch"}))
                = SubSeq(video_ids, 1, Len(EventsOfType({"fetch"})))
          /\ successful <= Len(EventsOfType({"saved"}))
          /\ no_captions <= Len(NoTranscriptsErrors)
          /\ failed <= Len(OtherErrors)

C1_Witness ==
    /\ choice = 1
    /\ console = "channel_summary"
    /\ Len(video_ids) = 3
    /\ successful = 1
    /\ no_captions = 1
    /\ failed = 1
    /\ \E i \in 1..Len(events) : events[i] = Event("error", WriteErrorText)

\* the lines of the file that are not blank, without surrounding whitespace
NonBlankLines ==
    LET kept == SelectSeq(file_lines, LAMBDA l : \E i \in 1..Len(l) : l[i] \notin Whitespace)
    IN  [i \in 1..Len(kept) |-> strip(kept[i])]

\* C4: in the file-driven workflow the lines that are not blank are processed
\* once each in file order, whatever fails; no step of the loop removes a
\* file written before; at the summary successful + failed is the number of
\* lines that are not blank. Wherever the workflow is, cut by an interrupt
\* included, the lines taken up are the first lines that are not blank, in
\* order, and no more turns are counted than were begun.
C4_FileLoop ==
    /\ [](InFileLoop =>
            /\ IdsOf(EventsOfType({"line"})) = SubSeq(NonBlankLines, 1, idx - 1)
            /\ successful + failed = idx - 1
            /\ console = "multiple_summary" =>
                  /\ idx - 1 = Len(NonBlankLines)
                  /\ successful + failed = Len(NonBlankLines))
    /\ [](choice = 3 =>
            /\ Len(EventsOfType({"line"})) <= Len(NonBlankLines)
            /\ IdsOf(EventsOfType({"line"}))
                  = SubSeq(NonBlankLines, 1, Len(EventsOfType({"line"})))
            /\ successful + failed <= Len(EventsOfType({"line"})))
    /\ [][pc = "multi_loop" => DOMAIN files \subseteq DOMAIN files']_vars

C4_Witness ==
    /\ choice = 3
    /\ console = "multiple_summary"
    /\ Len(NonBlankLines) = 3
    /\ Len(file_lines) = 4
    /\ files # <<>>
    /\ \E i, j, k \in 1..Len(events) :
          /\ i < j /\ j < k
          /\ events[i].type = "saved"
          /\ events[j].type = "error"
          /\ events[k].type = "saved"

\* C5 as stated: in each workflow no channel-resolution lookup, no
\* enumeration call and no transcript fetch is issued before
\* get_output_format has returned.
C5_FormatBeforeAnyNetwork ==
    \A i \in 1..Len(events) :
        events[i].type \in {"lookup", "search_page", "fetch"} => FormatReturnedBefore(i)

\* C5: in each workflow no enumeration call and no transcript fetch is issued
\* before get_output_format has returned; the single-video and the
\* file-driven workflow issue no network call at all before it; in the
\* channel workflow the resolution lookups, and only they, come before it.
C5_FormatBeforeEnumerationAndFetch ==
    /\ \A i \in 1..Len(events) :
          events[i].type \in {"search_page", "fetch"} => FormatReturnedBefore(i)
    /\ choice \in {2, 3} =>
          \A i \in 1..Len(events) :
              events[i].type \in {"lookup", "search_page", "fetch"}
                  => FormatReturnedBefore(i)
    /\ choice = 1 =>
          \A i \in 1..Len(events) :
              events[i].type = "lookup" => ~ FormatReturnedBefore(i)

C5_Witness ==
    /\ choice = 1
    /\ \E i, j, k, l \in 1..Len(events) :
          /\ i < j /\ j < k /\ k < l
          /\ events[i].type = "lookup"
          /\ events[j].type = "format_returned"
          /\ events[k].type = "search_page"
          /\ events[l].type = "fetch"

\* C6: in the file-driven workflow a fetch that fails with a message
\* containing "No transcripts were found" does not increase failed; failed
\* counts the other failures only.
C6_NoCaptionsNotFailed ==
    InFileLoop => failed = Len(OtherErrors)

ValidChoice(line) ==
    LET n == py_int(line) IN n.ok /\ int_between(1, n, 4)

\* C7 as stated: the process ends only by choice 4 and then with status 0;
\* whatever happens in a workflow, it returns to the menu without raising;
\* an entry that is not a number from 1 to 4 starts no workflow and is asked
\* again.
C7_MenuLoop ==
    /\ [](/\ pc \in WorkflowSteps \cup {"menu", "exited"}
          /\ pc = "exited" => (choice = 4 /\ exit_status = 0)
          /\ pc # "exited" => exit_status = -1)
    /\ [][/\ pc' = "exited" =>
                (pc = "menu" /\ ValidChoice(stdin_line')
                    /\ int_value(py_int(stdin_line')) = 4)
          /\ (pc = "menu" /\ ~ ValidChoice(stdin_line')) => pc' = "menu"
          /\ (pc = "menu" /\ pc' \in WorkflowSteps) => ValidChoice(stdin_line')
          /\ pc \in WorkflowSteps => pc' \in WorkflowSteps \cup {"menu"}
          /\ pc = "exited" => pc' = "exited"]_vars

\* C7: the process ends by choice 4, then with status 0, or by an exception
\* that no except catches (the end of input at a prompt of main, an
\* interrupt at a prompt, before, inside or after any call of a step), then
\* with another status; whatever else happens in a workflow, the end of
\* input at the format prompt included, it returns to the menu; an entry
\* that int() does not read as a number from 1 to 4 starts no workflow and
\* is asked again.
C7_MenuLoopUnlessInputRaises ==
    /\ [](/\ pc \in WorkflowSteps \cup {"menu", "exited", "crashed"}
          /\ pc = "exited" => (choice = 4 /\ exit_status = 0)
          /\ pc = "crashed" =>
                /\ exit_status \in {1, 130}
                /\ console \in {"traceback_EOFError", "traceback_KeyboardInterrupt"}
          /\ pc \notin {"exited", "crashed"} => exit_status = -1)
    /\ [][/\ pc' = "exited" =>
                (pc = "menu" /\ ValidChoice(stdin_line')
                    /\ int_value(py_int(stdin_line')) = 4)
          /\ (pc' = "crashed" /\ pc # "crashed") =>
                \/ pc \in MainPrompts /\ console' = "traceback_EOFError"
                                       /\ exit_status' = 1
                \/ console' = "traceback_KeyboardInterrupt" /\ exit_status' = 130
          /\ (pc = "menu" /\ pc' # "crashed" /\ ~ ValidChoice(stdin_line'))
                => pc' = "menu"
          /\ (pc = "menu" /\ pc' \in WorkflowSteps) => ValidChoice(stdin_line')
          /\ pc \in WorkflowSteps => pc' \in WorkflowSteps \cup {"menu", "crashed"}
          /\ pc \in {"exited", "crashed"} => pc' = pc]_vars

C7_Witness ==
    /\ pc = "menu"
    /\ console \in {"error_processing_channel", "error_reading_file",
                     "error_processing_video"}
    /\ exit_status = -1

\* C10: in the channel workflow a transcript is fetched or a file written
\* only with a channel identifier resolved, a video enumerated and the
\* directory transcripts/<channel identifier> created before; a workflow
\* that ends unresolved or without videos has created no directory, fetched
\* no transcript and written no file.
C10_ChannelFrame ==
    choice = 1 =>
        /\ \A i \in 1..Len(events) :
              events[i].type \in {"fetch", "write"} =>
                  /\ channel_id # <<>>
                  /\ video_ids # <<>>
                  /\ \E j \in 1..(i - 1) : events[j] = Event("mkdir", channel_id)
        /\ \A f \in DOMAIN files :
              /\ f.dir = [root |-> Transcripts, sub |-> channel_id]
              /\ f.dir \in dirs
              /\ \E i \in 1..Len(events) : events[i] = Event("write", f.stem)
        /\ dirs \subseteq {[root |-> Transcripts, sub |-> channel_id]}
        /\ console \in {"could_not_resolve", "no_videos_found"} =>
              /\ pc = "menu"
              /\ dirs = {}
              /\ files = <<>>
              /\ EventsOfType({"mkdir", "fetch", "write", "saved"}) = <<>>

C10_Witness ==
    /\ choice = 1
    /\ channel_id # <<>>
    /\ channel_id # channel_url
    /\ files # <<>>
    /\ \E i \in 1..Len(events) : events[i].type = "saved"

=============================================================================
